---- MODULE Spec2Model ----
(***************************************************************************)
(* A model of the client-side state of the biometric voting front-end:     *)
(* the BiometricService verification session and its copy in local         *)
(* storage, the useVoting hook, and the logout paths of useAuth and        *)
(* AuthProvider together with the StateService slices they reset.          *)
(*                                                                         *)
(* Every asynchronous handler is modelled as two steps: the part up to its *)
(* await of the backend (the call), and the part after it (the response).  *)
(* The variable pending holds the request that is in flight.  In Spec a    *)
(* handler starts only when no other one is in flight.                     *)
(***************************************************************************)
EXTENDS Integers, Sequences, FiniteSets, TLC

VARIABLES
    verificationSession, \* BiometricService.verificationSession
    localStorage,        \* window.localStorage: key -> item
    clock,               \* the index in Instants of the present instant
    pending,             \* the BiometricService request awaiting its response
    lastOp,              \* the last operation that ran and how it ended
    state,               \* StateService.state
    isLoading,           \* useVoting
    candidates,          \* useVoting
    votingStats,         \* useVoting
    hasVoted,            \* useVoting
    selectedCandidate,   \* useVoting
    contractAccount,     \* ContractService.account
    chainVotes,          \* the votes the voting contract has recorded
    votePending,         \* the vote transaction castVote is awaiting
    voteResolved,        \* whether a castVote has resolved successfully
    authUser,            \* AuthProvider: user
    authLoading,         \* AuthProvider: loading
    authIsAuthenticated, \* AuthProvider: isAuthenticated
    hookIsLoading,       \* useAuth: isLoading
    hookIsAuthenticated, \* useAuth: isAuthenticated
    hookUser,            \* useAuth: user
    location,            \* the route the browser shows
    routeView,           \* ProtectedRoute: the element it rendered last
    apiStack,            \* apiService: the requests of one call, the last one in flight
    apiOutcome,          \* apiService: how the call ended
    refreshCalls,        \* apiService: requests sent to the refresh-token endpoint
    resends,             \* apiService: re-sends of the request that was called
    txPc,                \* waitForTransaction: where it stands
    txReceipt,           \* waitForTransaction: receipt
    txCurrentBlock,      \* waitForTransaction: currentBlock
    confirmations,       \* waitForTransaction: confirmations
    blockNumber,         \* the chain: number of its latest block
    txBlock,             \* the chain: block of the transaction, 0 while not mined
    verificationState,   \* BiometricProvider: verificationState
    ctxLoading,          \* BiometricProvider: loading
    ctxPending,          \* BiometricProvider: the request awaiting its response
    pageSelectedCandidate, \* VotingPage: selectedCandidate
    pageIsVoting,        \* VotingPage: isVoting
    pageHasVoted,        \* VotingPage: hasVoted
    currentStep,         \* Dashboard: currentStep
    dashboardData,       \* Dashboard: verificationData
    isVerified,          \* Dashboard: isVerified
    dashRequests,        \* Dashboard: requests of its step components in flight
    settings,            \* Settings: settings
    hasChanges,          \* Settings: hasChanges
    authRequests,        \* AuthProvider: its requests awaiting their responses
    validation           \* validateVerificationSession: its argument and result

votingVars == <<isLoading, candidates, votingStats, hasVoted, selectedCandidate,
                contractAccount, chainVotes, votePending, voteResolved>>

authVars == <<authUser, authLoading, authIsAuthenticated,
              hookIsLoading, hookIsAuthenticated, hookUser, location>>

routeVars == <<routeView>>

apiVars == <<apiStack, apiOutcome, refreshCalls, resends>>

txVars == <<txPc, txReceipt, txCurrentBlock, confirmations, blockNumber, txBlock>>

ctxVars == <<verificationState, ctxLoading, ctxPending,
             pageSelectedCandidate, pageIsVoting, pageHasVoted>>

dashVars == <<currentStep, dashboardData, isVerified, dashRequests>>

settingsVars == <<settings, hasChanges>>

providerVars == <<authRequests>>

pageVars == <<routeVars, apiVars, txVars, ctxVars, dashVars, settingsVars, validation,
             providerVars>>

\* the variables of the services and hooks, but for lastOp
coreVars == <<verificationSession, localStorage, clock, pending, state, votingVars, authVars>>

vars == <<verificationSession, localStorage, clock, pending, lastOp, state,
          votingVars, authVars, pageVars>>

----------------------------------------------------------------------------
(* Values *)

\* JavaScript null, for object-valued places
null == [null |-> TRUE]

\* JavaScript null, for string-valued places (`${null}` prints "null")
NullStr == "null"

\* a key that local storage does not hold
ABSENT == [absent |-> TRUE]

StorageKeys == {"verificationSession", "token", "refreshToken",
                "authState", "votingState", "verificationState", "appSettings"}

RequiredSteps == {"faceDetection", "faceRecognition", "irisDetection", "irisAnalysis"}

\* base64 image data
Images == {"imgA", "imgB"}

Wallets == {"0xA", "0xB"}

\* the instants new Date().toISOString() may read, in the order of time
Instants == <<"2025-03-18T10:00:00.000Z", "2025-03-18T10:00:01.000Z">>

\* the values crypto.randomUUID() may return
SessionIds == {"uuid-1", "uuid-2"}

\* BIOMETRIC_CONSTANTS, with the confidences and thresholds in hundredths
FACE_MIN_CONFIDENCE == 85
FACE_MIN_FACE_SIZE == 150
FACE_ALLOWED_POSES == {"frontal", "slight-left", "slight-right"}
IRIS_MIN_CONFIDENCE == 90
IRIS_MIN_IRIS_SIZE == 100
IRIS_MAX_IRIS_SIZE == 300
IRIS_QUALITY_THRESHOLD == 75
IMAGE_MAX_SIZE == 5242880
IMAGE_ALLOWED_TYPES == {"image/jpeg", "image/png"}
MIN_RESOLUTION == [width |-> 640, height |-> 480]
MAX_RESOLUTION == [width |-> 1920, height |-> 1080]

\* the File objects a caller may pass instead of base64 data
Files == {
    [size |-> 1000, type |-> "image/jpeg", width |-> 640, height |-> 480, content |-> "imgA"],
    [size |-> 1000, type |-> "image/gif", width |-> 800, height |-> 600, content |-> "imgB"],
    [size |-> 1000, type |-> "image/png", width |-> 320, height |-> 240, content |-> "imgA"] }

ImageInputs == [kind : {"base64"}, data : Images] \cup [kind : {"file"}, file : Files]

\* what the backend may answer to a face or iris detection request
FaceDetections == {
    [confidence |-> 95, pose |-> "profile", faceSize |-> 200] }

IrisDetections == {
    [confidence |-> 95, irisSize |-> 200, quality |-> 50] }

Confidences == {97}

BackendErrors == {"", "Rejected by backend"}

ThrownErrors == {"Network Error"}

DetectionResponses(detections) ==
    [success : {TRUE}, detection : detections]
        \cup [success : {FALSE}, error : BackendErrors]
        \cup [thrown : ThrownErrors]

ConfidenceResponses ==
    [success : {TRUE}, confidence : Confidences]
        \cup [success : {FALSE}, error : BackendErrors]
        \cup [thrown : ThrownErrors]

CompletionResponses ==
    [success : {TRUE}]
        \cup [success : {FALSE}, error : BackendErrors]
        \cup [thrown : ThrownErrors]

\* response.error || fallback
ErrorOr(response, fallback) ==
    IF response.error # "" THEN response.error ELSE fallback

----------------------------------------------------------------------------
(* appUtils.storage: items are JSON texts *)

storageSet(ls, key, value) == [ls EXCEPT ![key] = [json |-> value]]

\* JSON.parse throws on an item that was not written as JSON, and the
\* catch returns the default
storageGet(ls, key, defaultValue) ==
    IF ls[key] = ABSENT THEN defaultValue
    ELSE IF "json" \in DOMAIN ls[key] THEN ls[key].json
    ELSE defaultValue

storageRemove(ls, key) == [ls EXCEPT ![key] = ABSENT]

----------------------------------------------------------------------------
(* biometricUtils *)

validateImageFile(file) ==
    IF file.size > IMAGE_MAX_SIZE
        THEN "File size exceeds maximum allowed size (5MB)"
    ELSE IF file.type \notin IMAGE_ALLOWED_TYPES
        THEN "Invalid file type. Only JPEG and PNG files are allowed"
    ELSE IF file.width < MIN_RESOLUTION.width \/ file.height < MIN_RESOLUTION.height
        THEN "Image resolution is too low"
    ELSE IF file.width > MAX_RESOLUTION.width \/ file.height > MAX_RESOLUTION.height
        THEN "Image resolution is too high"
    ELSE "ok"

fileToBase64(file) == file.content

\* scores in tenths
calculateFaceScore(detectionResult) ==
    (IF detectionResult.confidence >= FACE_MIN_CONFIDENCE THEN 4 ELSE 0)
    + (IF detectionResult.pose \in FACE_ALLOWED_POSES THEN 3 ELSE 0)
    + (IF detectionResult.faceSize >= FACE_MIN_FACE_SIZE THEN 3 ELSE 0)

calculateIrisScore(detectionResult) ==
    (IF detectionResult.confidence >= IRIS_MIN_CONFIDENCE THEN 4 ELSE 0)
    + (IF detectionResult.irisSize >= IRIS_MIN_IRIS_SIZE
          /\ detectionResult.irisSize <= IRIS_MAX_IRIS_SIZE THEN 3 ELSE 0)
    + (IF detectionResult.quality >= IRIS_QUALITY_THRESHOLD THEN 3 ELSE 0)

\* SHA-256 is taken to be collision free: the digest is named by the text
\* that was hashed
generateVerificationHash(verificationData) ==
    "sha256(" \o verificationData.faceData \o ":" \o verificationData.irisData
        \o ":" \o verificationData.timestamp
        \o ":" \o verificationData.walletAddress \o ")"

----------------------------------------------------------------------------
(* BiometricService: queries *)

\* variant: one completed step is enough
isVerificationComplete_any(session) ==
    IF session = null THEN FALSE
    ELSE \E step \in DOMAIN session.steps : session.steps[step].completed

\* variant: the last step, irisAnalysis, is not looked at
isVerificationComplete_threeSteps(session) ==
    IF session = null THEN FALSE
    ELSE \A step \in DOMAIN session.steps \ {"irisAnalysis"} : session.steps[step].completed

isVerificationComplete(session) ==
    IF session = null THEN FALSE
    ELSE \A step \in DOMAIN session.steps : session.steps[step].completed

\* the progress in percent
getVerificationProgress(session) ==
    IF session = null THEN 0
    ELSE (Cardinality({step \in DOMAIN session.steps : session.steps[step].completed}) * 100) \div 4

\* what getSession returns, and leaves in this.verificationSession
getSessionValue(session, ls) ==
    IF session = null /\ storageGet(ls, "verificationSession", null) # null
        THEN storageGet(ls, "verificationSession", null)
    ELSE session

getVerificationStatusValue(session, ls) ==
    LET s == getSessionValue(session, ls) IN
    IF s = null THEN null
    ELSE [sessionId |-> s.id,
          progress |-> getVerificationProgress(s),
          steps |-> s.steps,
          startTime |-> s.startTime,
          isComplete |-> isVerificationComplete(s)]

\* the guards of the three ordered steps
\* variant: face recognition only asks for a session
faceDetectionDone_anySession(session) ==
    session # null

faceDetectionDone(session) ==
    session # null /\ session.steps.faceDetection.completed

faceRecognitionDone(session) ==
    session # null /\ session.steps.faceRecognition.completed

irisDetectionDone(session) ==
    session # null /\ session.steps.irisDetection.completed

----------------------------------------------------------------------------
(* BiometricService: operations *)

\* crypto.randomUUID() returns an identifier that no session has had; two
\* identifiers are enough to tell a session from the one before it, and which
\* of the unused ones is returned makes no difference
FreshIds ==
    SessionIds \ ( (IF verificationSession = null THEN {} ELSE {verificationSession.id})
                   \cup (IF storageGet(localStorage, "verificationSession", null) = null
                           THEN {}
                         ELSE {storageGet(localStorage, "verificationSession", null).id}) )

Idle == pending = null

\* new Date().toISOString()
now == Instants[clock]

Returned(op, result) == lastOp' = [op |-> op, result |-> result]

\* the page is loaded: the service is constructed, local storage is kept
constructor ==
    /\ verificationSession' = null
    /\ pending' = null
    /\ lastOp' = [op |-> "constructor", result |-> "ok"]
    /\ UNCHANGED <<localStorage, clock, state, votingVars, authVars, pageVars>>

initializeSession ==
    /\ Idle
    /\ LET session == [id |-> CHOOSE id \in FreshIds : TRUE,
                       startTime |-> now,
                       steps |-> [step \in RequiredSteps |-> [completed |-> FALSE, score |-> 0]],
                       images |-> [face |-> NullStr, iris |-> NullStr],
                       verificationHash |-> NullStr]
       IN /\ verificationSession' = session
          /\ localStorage' = storageSet(localStorage, "verificationSession", session)
    /\ Returned("initializeSession", "ok")
    /\ UNCHANGED <<clock, pending, state, votingVars, authVars, pageVars>>

getSession ==
    /\ Idle
    /\ verificationSession' = getSessionValue(verificationSession, localStorage)
    /\ Returned("getSession", "ok")
    /\ UNCHANGED <<localStorage, clock, pending, state, votingVars, authVars, pageVars>>

getVerificationStatus ==
    /\ Idle
    /\ verificationSession' = getSessionValue(verificationSession, localStorage)
    /\ Returned("getVerificationStatus", "ok")
    /\ UNCHANGED <<localStorage, clock, pending, state, votingVars, authVars, pageVars>>

\* variant: the stored session is not removed
clearSessionEffect_memoryOnly ==
    /\ verificationSession' = null
    /\ localStorage' = localStorage

\* variant: the in-memory session is kept
clearSessionEffect_storageOnly ==
    /\ verificationSession' = verificationSession
    /\ localStorage' = storageRemove(localStorage, "verificationSession")

clearSessionEffect ==
    /\ verificationSession' = null
    /\ localStorage' = storageRemove(localStorage, "verificationSession")

clearSession ==
    /\ Idle
    /\ clearSessionEffect
    /\ Returned("clearSession", "ok")
    /\ UNCHANGED <<clock, pending, state, votingVars, authVars, pageVars>>

\* a handler rejects before any request is sent
Reject(op, error) ==
    /\ Returned(op, error)
    /\ UNCHANGED <<verificationSession, localStorage, clock, pending, state, votingVars, authVars, pageVars>>

\* a handler sends its request and awaits the response
Await(request) ==
    /\ pending' = request
    /\ Returned(request.op, "pending")
    /\ UNCHANGED <<verificationSession, localStorage, clock, state, votingVars, authVars, pageVars>>

\* a handler rejects after the response
\* variant: a failure discards the session
Fail_dropsSession(op, error) ==
    /\ pending' = null
    /\ Returned(op, error)
    /\ verificationSession' = null
    /\ localStorage' = storageRemove(localStorage, "verificationSession")
    /\ UNCHANGED <<clock, state, votingVars, authVars, pageVars>>

Fail(op, error) ==
    /\ pending' = null
    /\ Returned(op, error)
    /\ UNCHANGED <<verificationSession, localStorage, clock, state, votingVars, authVars, pageVars>>

\* a handler stores the session it changed and resolves
Store(op, session) ==
    /\ verificationSession' = session
    /\ localStorage' = storageSet(localStorage, "verificationSession", session)
    /\ pending' = null
    /\ Returned(op, "ok")
    /\ UNCHANGED <<clock, state, votingVars, authVars, pageVars>>

verifyFaceAuth(imageData) ==
    /\ Idle
    /\ IF imageData.kind = "file" /\ validateImageFile(imageData.file) # "ok"
         THEN Reject("verifyFaceAuth", validateImageFile(imageData.file))
       ELSE Await([op |-> "verifyFaceAuth",
                   imageData |-> IF imageData.kind = "file"
                                   THEN fileToBase64(imageData.file)
                                 ELSE imageData.data])

verifyFaceAuthResponse(response) ==
    /\ pending # null
    /\ pending.op = "verifyFaceAuth"
    /\ IF "thrown" \in DOMAIN response
         THEN Fail("verifyFaceAuth", response.thrown)
       ELSE IF ~response.success
         THEN Fail("verifyFaceAuth", ErrorOr(response, "Face authentication failed"))
       ELSE IF verificationSession = null
         THEN Fail("verifyFaceAuth", "TypeError")
       ELSE Store("verifyFaceAuth",
                  [verificationSession EXCEPT
                      !.steps.faceDetection =
                          [completed |-> TRUE,
                           score |-> calculateFaceScore(response.detection),
                           timestamp |-> now],
                      !.images.face = pending.imageData])

performFaceRecognition(imageData) ==
    /\ Idle
    /\ IF ~faceDetectionDone(verificationSession)
         THEN Reject("performFaceRecognition", "Face detection must be completed first")
       ELSE Await([op |-> "performFaceRecognition", imageData |-> imageData])

performFaceRecognitionResponse(response) ==
    /\ pending # null
    /\ pending.op = "performFaceRecognition"
    /\ IF "thrown" \in DOMAIN response
         THEN Fail("performFaceRecognition", response.thrown)
       ELSE IF ~response.success
         THEN Fail("performFaceRecognition", ErrorOr(response, "Face recognition failed"))
       ELSE IF verificationSession = null
         THEN Fail("performFaceRecognition", "TypeError")
       ELSE Store("performFaceRecognition",
                  [verificationSession EXCEPT
                      !.steps.faceRecognition =
                          [completed |-> TRUE,
                           score |-> response.confidence,
                           timestamp |-> now]])

detectIris(imageData) ==
    /\ Idle
    /\ IF ~faceRecognitionDone(verificationSession)
         THEN Reject("detectIris", "Face recognition must be completed first")
       ELSE IF imageData.kind = "file" /\ validateImageFile(imageData.file) # "ok"
         THEN Reject("detectIris", validateImageFile(imageData.file))
       ELSE Await([op |-> "detectIris",
                   imageData |-> IF imageData.kind = "file"
                                   THEN fileToBase64(imageData.file)
                                 ELSE imageData.data])

detectIrisResponse(response) ==
    /\ pending # null
    /\ pending.op = "detectIris"
    /\ IF "thrown" \in DOMAIN response
         THEN Fail("detectIris", response.thrown)
       ELSE IF ~response.success
         THEN Fail("detectIris", ErrorOr(response, "Iris detection failed"))
       ELSE IF verificationSession = null
         THEN Fail("detectIris", "TypeError")
       ELSE Store("detectIris",
                  [verificationSession EXCEPT
                      !.steps.irisDetection =
                          [completed |-> TRUE,
                           score |-> calculateIrisScore(response.detection),
                           timestamp |-> now],
                      !.images.iris = pending.imageData])

analyzeIris(imageData) ==
    /\ Idle
    /\ IF ~irisDetectionDone(verificationSession)
         THEN Reject("analyzeIris", "Iris detection must be completed first")
       ELSE Await([op |-> "analyzeIris", imageData |-> imageData])

analyzeIrisResponse(response) ==
    /\ pending # null
    /\ pending.op = "analyzeIris"
    /\ IF "thrown" \in DOMAIN response
         THEN Fail("analyzeIris", response.thrown)
       ELSE IF ~response.success
         THEN Fail("analyzeIris", ErrorOr(response, "Iris analysis failed"))
       ELSE IF verificationSession = null
         THEN Fail("analyzeIris", "TypeError")
       ELSE Store("analyzeIris",
                  [verificationSession EXCEPT
                      !.steps.irisAnalysis =
                          [completed |-> TRUE,
                           score |-> response.confidence,
                           timestamp |-> now]])

\* the body of the request of completeVerification
\* variant: the request takes the hash that the session had before
completionRequest_sessionHash(session, verificationHash, walletAddress) ==
    [sessionId |-> session.id,
     verificationHash |-> session.verificationHash,
     walletAddress |-> walletAddress,
     steps |-> session.steps]

completionRequest(session, verificationHash, walletAddress) ==
    [sessionId |-> session.id,
     verificationHash |-> verificationHash,
     walletAddress |-> walletAddress,
     steps |-> session.steps]

completeVerification(walletAddress) ==
    /\ Idle
    /\ IF ~isVerificationComplete(verificationSession)
         THEN Reject("completeVerification", "All verification steps must be completed")
       ELSE LET verificationHash ==
                    generateVerificationHash(
                        [faceData |-> verificationSession.images.face,
                         irisData |-> verificationSession.images.iris,
                         timestamp |-> now,
                         walletAddress |-> walletAddress])
            IN /\ verificationSession' =
                      [verificationSession EXCEPT !.verificationHash = verificationHash]
               /\ pending' = [op |-> "completeVerification",
                              walletAddress |-> walletAddress,
                              request |-> completionRequest(verificationSession,
                                                            verificationHash, walletAddress)]
               /\ Returned("completeVerification", "pending")
               /\ UNCHANGED <<localStorage, clock, state, votingVars, authVars, pageVars>>

completeVerificationResponse(response) ==
    /\ pending # null
    /\ pending.op = "completeVerification"
    /\ IF "thrown" \in DOMAIN response
         THEN Fail("completeVerification", response.thrown)
       ELSE IF ~response.success
         THEN Fail("completeVerification", ErrorOr(response, "Verification completion failed"))
       ELSE /\ clearSessionEffect
            /\ pending' = null
            /\ Returned("completeVerification", "ok")
            /\ UNCHANGED <<clock, state, votingVars, authVars, pageVars>>

\* time passes
Tick ==
    /\ clock < Len(Instants)
    /\ clock' = clock + 1
    /\ UNCHANGED <<verificationSession, localStorage, pending, lastOp, state, votingVars, authVars, pageVars>>

----------------------------------------------------------------------------
(* StateService *)

\* { ...b }: what the spread gives when the first part is left out
Merge_replace(a, b) == b

\* { ...a, ...b }
Merge(a, b) ==
    [key \in DOMAIN a \cup DOMAIN b |-> IF key \in DOMAIN b THEN b[key] ELSE a[key]]

defaultAuth == [isAuthenticated |-> FALSE, user |-> null, role |-> NullStr]

defaultVoting == [isActive |-> FALSE, hasVoted |-> FALSE, candidates |-> <<>>, statistics |-> null]

defaultVerification == [isVerified |-> FALSE, progress |-> 0, currentStep |-> NullStr]

defaultNetwork == [isConnected |-> FALSE, chainId |-> NullStr, account |-> NullStr]

defaultSettings == [theme |-> "light", language |-> "en", notifications |-> TRUE, autoConnect |-> TRUE]

loadSettings(ls) == storageGet(ls, "appSettings", defaultSettings)

\* The operations of StateService take and return the pair of
\* StateService.state and local storage, so that a handler can chain them.
World(st, ls) == [state |-> st, localStorage |-> ls]

updateAuthState(w, authData) ==
    LET auth == Merge(w.state.auth, authData) IN
    World([w.state EXCEPT !.auth = auth], storageSet(w.localStorage, "authState", auth))

updateVotingState(w, votingData) ==
    LET voting == Merge(w.state.voting, votingData) IN
    World([w.state EXCEPT !.voting = voting], storageSet(w.localStorage, "votingState", voting))

updateVerificationState(w, verificationData) ==
    LET verification == Merge(w.state.verification, verificationData) IN
    World([w.state EXCEPT !.verification = verification],
          storageSet(w.localStorage, "verificationState", verification))

updateNetworkState(w, networkData) ==
    World([w.state EXCEPT !.network = Merge(w.state.network, networkData)], w.localStorage)

clearState(w) ==
    World([auth |-> defaultAuth,
           voting |-> defaultVoting,
           verification |-> defaultVerification,
           network |-> defaultNetwork,
           settings |-> loadSettings(w.localStorage)],
          storageRemove(storageRemove(storageRemove(w.localStorage,
              "authState"), "votingState"), "verificationState"))

updateSettings(w, settingsData) ==
    LET merged == Merge(w.state.settings, settingsData) IN
    World([w.state EXCEPT !.settings = merged],
          storageSet(w.localStorage, "appSettings", merged))

\* the stored slices are merged into the state, and stored again
initializeState(w) ==
    LET authData == storageGet(w.localStorage, "authState", null)
        w1 == IF authData # null THEN updateAuthState(w, authData) ELSE w
        votingData == storageGet(w1.localStorage, "votingState", null)
        w2 == IF votingData # null THEN updateVotingState(w1, votingData) ELSE w1
        verificationData == storageGet(w2.localStorage, "verificationState", null)
    IN  IF verificationData # null THEN updateVerificationState(w2, verificationData)
        ELSE w2

\* new StateService(), when the page is loaded
StateService(ls) ==
    initializeState(World([auth |-> defaultAuth,
                           voting |-> defaultVoting,
                           verification |-> defaultVerification,
                           network |-> defaultNetwork,
                           settings |-> loadSettings(ls)], ls))

\* the update of StateService by the name of its slice
updateSlice(slice, w, data) ==
    IF slice = "auth" THEN updateAuthState(w, data)
    ELSE IF slice = "voting" THEN updateVotingState(w, data)
    ELSE IF slice = "verification" THEN updateVerificationState(w, data)
    ELSE IF slice = "network" THEN updateNetworkState(w, data)
    ELSE updateSettings(w, data)

\* what the hooks and services pass to the updates
SliceInputs ==
    [auth |-> {[isAuthenticated |-> TRUE, user |-> [id |-> "voter-1"], role |-> "voter"],
               [role |-> "admin"],
               [isAuthenticated |-> FALSE]},
     voting |-> {[hasVoted |-> TRUE], [isActive |-> TRUE, hasVoted |-> FALSE]},
     verification |-> {[isVerified |-> TRUE], [progress |-> 50, currentStep |-> "face"]},
     network |-> {[isConnected |-> TRUE, account |-> "0xA1"], [chainId |-> "0x1"]},
     settings |-> {[theme |-> "dark"], [language |-> "ar", notifications |-> FALSE]}]

isWalletConnected(st) == st.network.isConnected /\ st.network.account # NullStr

\* a handler leaves the pair w behind
Leaves(w) == state' = w.state /\ localStorage' = w.localStorage

----------------------------------------------------------------------------
(* The voting contract and the wallet, as the hooks see them *)

\* the contract has one candidate
CandidateIds == {0}

Voters(votes) == {vote[1] : vote \in votes}

\* ContractService.getCandidates
getCandidates(votes) ==
    [id \in CandidateIds |->
        [id |-> id, voteCount |-> Cardinality({vote \in votes : vote[2] = id})]]

\* ContractService.getVotingStatistics
getVotingStatistics(votes) == [totalVotes |-> Cardinality(votes)]

\* what useWeb3 returns
isConnected == isWalletConnected(state)

account == state.network.account

\* what useVoting returns as canVote
canVote == isConnected /\ isVerificationComplete(verificationSession) /\ ~hasVoted

----------------------------------------------------------------------------
(* useWeb3 and useBiometric, as far as useVoting reads them *)

Ran(op, result) == lastOp' = [op |-> op, result |-> result]

\* a handler ran whose outcome no property reads
Handled == Ran("handler", "ok")

bioFrame == UNCHANGED <<verificationSession, clock, pending>>

initialize(walletAccount) ==
    /\ votePending = null
    /\ contractAccount' = walletAccount
    /\ Leaves(updateNetworkState(World(state, localStorage),
                  [isConnected |-> TRUE, chainId |-> "11155111", account |-> walletAccount]))
    /\ Handled
    /\ bioFrame
    /\ UNCHANGED <<isLoading, candidates, votingStats, hasVoted, selectedCandidate,
                   chainVotes, votePending, voteResolved, authVars, pageVars>>

connectWallet(walletAccount) ==
    /\ Leaves(updateNetworkState(World(state, localStorage),
                  [isConnected |-> TRUE, account |-> walletAccount]))
    /\ Handled
    /\ bioFrame
    /\ UNCHANGED <<votingVars, authVars, pageVars>>

disconnectWallet ==
    /\ Leaves(updateNetworkState(World(state, localStorage),
                  [isConnected |-> FALSE, account |-> NullStr]))
    /\ Handled
    /\ bioFrame
    /\ UNCHANGED <<votingVars, authVars, pageVars>>

\* the wallet's accountsChanged event
accountsChanged(accounts) ==
    /\ Leaves(updateNetworkState(World(state, localStorage),
                  IF Len(accounts) = 0
                    THEN [isConnected |-> FALSE, account |-> NullStr]
                  ELSE [account |-> accounts[1]]))
    /\ Handled
    /\ bioFrame
    /\ UNCHANGED <<votingVars, authVars, pageVars>>

resetVerification ==
    /\ pending = null
    /\ verificationSession' = null
    /\ Leaves(updateVerificationState(
                  World(state, storageRemove(localStorage, "verificationSession")),
                  [isVerified |-> FALSE, progress |-> 0, currentStep |-> NullStr]))
    /\ Handled
    /\ UNCHANGED <<clock, pending, votingVars, authVars, pageVars>>

----------------------------------------------------------------------------
(* useVoting *)

\* loadCandidates, as a handler calls it: ok tells whether the contract answered
afterLoadCandidates(w, ok) ==
    IF ok THEN updateVotingState(w, [candidates |-> getCandidates(chainVotes)]) ELSE w

afterLoadVotingStats(w, ok) ==
    IF ok THEN updateVotingState(w, [statistics |-> getVotingStatistics(chainVotes)]) ELSE w

loadCandidates(ok) ==
    /\ candidates' = IF ok THEN getCandidates(chainVotes) ELSE candidates
    /\ Leaves(afterLoadCandidates(World(state, localStorage), ok))
    /\ isLoading' = FALSE
    /\ Handled
    /\ bioFrame
    /\ UNCHANGED <<votingStats, hasVoted, selectedCandidate, contractAccount,
                   chainVotes, votePending, voteResolved, authVars, pageVars>>

loadVotingStats(ok) ==
    /\ votingStats' = IF ok THEN getVotingStatistics(chainVotes) ELSE votingStats
    /\ Leaves(afterLoadVotingStats(World(state, localStorage), ok))
    /\ isLoading' = FALSE
    /\ Handled
    /\ bioFrame
    /\ UNCHANGED <<candidates, hasVoted, selectedCandidate, contractAccount,
                   chainVotes, votePending, voteResolved, authVars, pageVars>>

checkVoteStatus(ok) ==
    /\ IF account = NullStr \/ ~ok
         THEN UNCHANGED <<hasVoted, state, localStorage>>
       ELSE /\ hasVoted' = (account \in Voters(chainVotes))
            /\ Leaves(updateVotingState(World(state, localStorage),
                          [hasVoted |-> account \in Voters(chainVotes)]))
    /\ Handled
    /\ bioFrame
    /\ UNCHANGED <<isLoading, candidates, votingStats, selectedCandidate, contractAccount,
                   chainVotes, votePending, voteResolved, authVars, pageVars>>

setSelectedCandidate(candidate) ==
    /\ selectedCandidate' = candidate
    /\ Handled
    /\ bioFrame
    /\ UNCHANGED <<state, localStorage, isLoading, candidates, votingStats, hasVoted,
                   contractAccount, chainVotes, votePending, voteResolved, authVars, pageVars>>

\* castVote throws before its try block
castVoteThrows(error) ==
    /\ Ran("castVote", error)
    /\ UNCHANGED <<state, localStorage, votingVars>>

\* the three checks of castVote, in their order: the error thrown, or "none"
\* variant: the check of hasVoted is missing
castVoteCheck_noVotedCheck ==
    IF ~isConnected THEN "Please connect your wallet first"
    ELSE IF ~isVerificationComplete(verificationSession)
        THEN "Please complete biometric verification first"
    ELSE "none"

castVoteCheck ==
    IF ~isConnected THEN "Please connect your wallet first"
    ELSE IF ~isVerificationComplete(verificationSession)
        THEN "Please complete biometric verification first"
    ELSE IF hasVoted THEN "You have already voted"
    ELSE "none"

castVote(candidateId) ==
    /\ votePending = null
    /\ bioFrame
    /\ UNCHANGED <<authVars, pageVars>>
    /\ IF castVoteCheck # "none"
         THEN castVoteThrows(castVoteCheck)
       ELSE IF contractAccount = NullStr
         \* ContractService was never initialized: this.contract is null
         THEN /\ isLoading' = FALSE
              /\ selectedCandidate' = null
              /\ Ran("castVote", "TypeError")
              /\ UNCHANGED <<state, localStorage, candidates, votingStats, hasVoted,
                             contractAccount, chainVotes, votePending, voteResolved>>
       ELSE /\ isLoading' = TRUE
            /\ votePending' = [candidateId |-> candidateId,
                               from |-> contractAccount,
                               mined |-> FALSE]
            /\ Ran("castVote", "pending")
            /\ UNCHANGED <<state, localStorage, candidates, votingStats, hasVoted,
                           selectedCandidate, contractAccount, chainVotes, voteResolved>>

\* the contract records the vote of an account that has not voted
transactionMined ==
    /\ votePending # null
    /\ ~votePending.mined
    /\ votePending.from \notin Voters(chainVotes)
    /\ chainVotes' = chainVotes \cup {<<votePending.from, votePending.candidateId>>}
    /\ votePending' = [votePending EXCEPT !.mined = TRUE]
    /\ bioFrame
    /\ UNCHANGED <<state, localStorage, lastOp, isLoading, candidates, votingStats, hasVoted,
                   selectedCandidate, contractAccount, voteResolved, authVars, pageVars>>

\* contractService.castVote returned the transaction
\* variant: hasVoted is not set after the transaction
castVoteResolves_noFlag(candidatesOk, statsOk) ==
    /\ votePending # null
    /\ votePending.mined
    /\ hasVoted' = hasVoted
    /\ candidates' = IF candidatesOk THEN getCandidates(chainVotes) ELSE candidates
    /\ votingStats' = IF statsOk THEN getVotingStatistics(chainVotes) ELSE votingStats
    /\ Leaves(afterLoadVotingStats(
                  afterLoadCandidates(World(state, localStorage), candidatesOk),
                  statsOk))
    /\ isLoading' = FALSE
    /\ selectedCandidate' = null
    /\ votePending' = null
    /\ voteResolved' = TRUE
    /\ Ran("castVote", "ok")
    /\ bioFrame
    /\ UNCHANGED <<contractAccount, chainVotes, authVars, pageVars>>

castVoteResolves(candidatesOk, statsOk) ==
    /\ votePending # null
    /\ votePending.mined
    /\ hasVoted' = TRUE
    /\ candidates' = IF candidatesOk THEN getCandidates(chainVotes) ELSE candidates
    /\ votingStats' = IF statsOk THEN getVotingStatistics(chainVotes) ELSE votingStats
    /\ Leaves(updateVotingState(
                  afterLoadVotingStats(
                      afterLoadCandidates(World(state, localStorage), candidatesOk),
                      statsOk),
                  [hasVoted |-> TRUE]))
    /\ isLoading' = FALSE
    /\ selectedCandidate' = null
    /\ votePending' = null
    /\ voteResolved' = TRUE
    /\ Ran("castVote", "ok")
    /\ bioFrame
    /\ UNCHANGED <<contractAccount, chainVotes, authVars, pageVars>>

\* contractService.castVote threw: the wallet refused, the contract reverted,
\* or waiting for the confirmations failed
castVoteRejects ==
    /\ votePending # null
    /\ isLoading' = FALSE
    /\ selectedCandidate' = null
    /\ votePending' = null
    /\ Ran("castVote", "Transaction failed")
    /\ bioFrame
    /\ UNCHANGED <<state, localStorage, candidates, votingStats, hasVoted,
                   contractAccount, chainVotes, voteResolved, authVars, pageVars>>

\* the callback of subscribeToVotes, run for the vote of voter
onVoteCast(voter, candidatesOk, statsOk) ==
    /\ isConnected
    /\ voter \in Voters(chainVotes)
    /\ candidates' = IF candidatesOk THEN getCandidates(chainVotes) ELSE candidates
    /\ votingStats' = IF statsOk THEN getVotingStatistics(chainVotes) ELSE votingStats
    /\ Leaves(afterLoadVotingStats(
                  afterLoadCandidates(World(state, localStorage), candidatesOk), statsOk))
    /\ isLoading' = FALSE
    /\ hasVoted' = IF account = voter THEN TRUE ELSE hasVoted
    /\ Handled
    /\ bioFrame
    /\ UNCHANGED <<selectedCandidate, contractAccount, chainVotes, votePending,
                   voteResolved, authVars, pageVars>>

----------------------------------------------------------------------------
(* apiService: the axios instance with its interceptors, and authService *)

Users == {[firstName |-> "Ann", role |-> "voter"], [firstName |-> "Bob", role |-> "admin"]}

\* how a request through the axios instance may end:
\*   ok               answered
\*   error            failed, not with status 401
\*   refreshed-ok     failed with 401, the token was refreshed, the re-sent request was answered
\*   refreshed-error  failed with 401, the token was refreshed, the re-sent request failed
\*   refresh-failed   failed with 401, and the refresh request failed
ApiOutcomes == {"ok", "error", "refreshed-ok", "refreshed-error", "refresh-failed"}

Resolves(outcome) == outcome \in {"ok", "refreshed-ok"}

\* local storage after the response interceptor has run
afterRequest(ls, outcome) ==
    IF outcome \in {"refreshed-ok", "refreshed-error"}
        THEN storageSet(ls, "token", "jwt-refreshed")
    ELSE IF outcome = "refresh-failed"
        THEN storageRemove(storageRemove(ls, "token"), "refreshToken")
    ELSE ls

\* where the browser is after the response interceptor has run
locationAfterRequest(loc, outcome) ==
    IF outcome = "refresh-failed" THEN "/login" ELSE loc

\* local storage after authService.login
authServiceLogin(ls, outcome, response) ==
    IF Resolves(outcome) /\ "token" \in DOMAIN response
        THEN storageSet(storageSet(afterRequest(ls, outcome), "token", response.token),
                        "refreshToken", response.refreshToken)
    ELSE afterRequest(ls, outcome)

\* local storage after authService.logout
authServiceLogout(ls, outcome) ==
    IF Resolves(outcome)
        THEN storageRemove(storageRemove(afterRequest(ls, outcome), "token"), "refreshToken")
    ELSE afterRequest(ls, outcome)

\* what /api/auth/login and /api/auth/verify may answer
LoginResponses ==
    [success : {TRUE}, token : {"jwt-1"}, refreshToken : {"refresh-1"}, user : Users]
        \cup [success : {FALSE}, error : BackendErrors]

VerifyResponses ==
    [success : {TRUE}, user : Users] \cup [success : {FALSE}, error : BackendErrors]

dashboardOf(user) ==
    IF user.role = "admin" THEN "/admin/dashboard" ELSE "/voter/dashboard"

----------------------------------------------------------------------------
(* AuthProvider (AuthContext): it reads and writes the token as plain text *)

authFrame ==
    /\ bioFrame
    /\ UNCHANGED <<votingVars, state, hookIsLoading, hookIsAuthenticated, hookUser, pageVars>>

checkAuthStatus(threw, data) ==
    /\ authFrame
    /\ IF localStorage["token"] = ABSENT
         THEN /\ authLoading' = FALSE
              /\ Ran("checkAuthStatus", "no token")
              /\ UNCHANGED <<localStorage, authUser, authIsAuthenticated, location>>
       ELSE IF threw
         THEN /\ authUser' = null
              /\ authIsAuthenticated' = FALSE
              /\ authLoading' = FALSE
              /\ Ran("checkAuthStatus", "Auth check failed")
              /\ UNCHANGED <<localStorage, location>>
       ELSE IF data.success
         THEN /\ authUser' = data.user
              /\ authIsAuthenticated' = TRUE
              /\ authLoading' = FALSE
              /\ Ran("checkAuthStatus", "ok")
              /\ UNCHANGED <<localStorage, location>>
       ELSE /\ localStorage' = storageRemove(localStorage, "token")
            /\ authUser' = null
            /\ authIsAuthenticated' = FALSE
            /\ authLoading' = FALSE
            /\ Ran("checkAuthStatus", "invalid token")
            /\ UNCHANGED location

login(threw, data) ==
    /\ authFrame
    /\ ~authLoading
    /\ IF threw
         THEN /\ Ran("login", "Network Error")
              /\ UNCHANGED <<localStorage, authUser, authIsAuthenticated, authLoading, location>>
       ELSE IF ~data.success
         THEN /\ Ran("login", ErrorOr(data, "Login failed"))
              /\ UNCHANGED <<localStorage, authUser, authIsAuthenticated, authLoading, location>>
       ELSE /\ localStorage' = [localStorage EXCEPT !["token"] = [text |-> data.token]]
            /\ authUser' = data.user
            /\ authIsAuthenticated' = TRUE
            /\ location' = dashboardOf(data.user)
            /\ Ran("login", "ok")
            /\ UNCHANGED authLoading

logout(threw) ==
    /\ authFrame
    /\ ~authLoading
    /\ localStorage' = storageRemove(localStorage, "token")
    /\ authUser' = null
    /\ authIsAuthenticated' = FALSE
    /\ location' = "/"
    /\ Ran("logout", IF threw THEN "Logout error" ELSE "ok")
    /\ UNCHANGED authLoading

----------------------------------------------------------------------------
(* useAuth (the hook): it goes through authService and StateService *)

hookFrame ==
    /\ bioFrame
    /\ UNCHANGED <<votingVars, authUser, authLoading, authIsAuthenticated, pageVars>>

\* the finally block of handleLogout, run on the local storage ls
loggedOut(ls) ==
    /\ hookIsAuthenticated' = FALSE
    /\ hookUser' = null
    /\ Leaves(clearState(
                  updateAuthState(
                      World(state, storageRemove(storageRemove(ls, "token"), "refreshToken")),
                      [isAuthenticated |-> FALSE, user |-> null, role |-> NullStr])))
    /\ location' = "/login"

\* variant: the local state is cleared only when the logout request succeeded
handleLogout_onSuccessOnly(outcome) ==
    /\ hookFrame
    /\ IF Resolves(outcome)
         THEN loggedOut(authServiceLogout(localStorage, outcome))
       ELSE /\ localStorage' = authServiceLogout(localStorage, outcome)
            /\ UNCHANGED <<hookIsAuthenticated, hookUser, state, location>>
    /\ Ran("handleLogout", IF Resolves(outcome) THEN "ok" ELSE "Logout error")
    /\ UNCHANGED hookIsLoading

handleLogout(outcome) ==
    /\ hookFrame
    /\ loggedOut(authServiceLogout(localStorage, outcome))
    /\ Ran("handleLogout", IF Resolves(outcome) THEN "ok" ELSE "Logout error")
    /\ UNCHANGED hookIsLoading

useAuthLogin(outcome, response) ==
    /\ hookFrame
    /\ hookIsLoading' = FALSE
    /\ IF Resolves(outcome) /\ response.success
         THEN /\ hookIsAuthenticated' = TRUE
              /\ hookUser' = response.user
              /\ Leaves(updateAuthState(
                            World(state, authServiceLogin(localStorage, outcome, response)),
                            [isAuthenticated |-> TRUE,
                             user |-> response.user,
                             role |-> response.user.role]))
              /\ location' = dashboardOf(response.user)
              /\ Ran("useAuth.login", "ok")
       ELSE /\ localStorage' = authServiceLogin(localStorage, outcome, response)
            /\ location' = locationAfterRequest(location, outcome)
            /\ Ran("useAuth.login",
                   IF Resolves(outcome) THEN ErrorOr(response, "Login failed")
                   ELSE "Request failed")
            /\ UNCHANGED <<state, hookIsAuthenticated, hookUser>>

\* the effect that runs when the hook mounts; when the token is not
\* verified it calls handleLogout, whose request ends with logoutOutcome
initAuth(outcome, response, logoutOutcome) ==
    /\ hookFrame
    /\ hookIsLoading' = FALSE
    /\ IF storageGet(localStorage, "token", NullStr) = NullStr
         THEN /\ Ran("initAuth", "no token")
              /\ UNCHANGED <<localStorage, state, hookIsAuthenticated, hookUser, location>>
       ELSE IF Resolves(outcome) /\ response.success
         THEN /\ hookIsAuthenticated' = TRUE
              /\ hookUser' = response.user
              /\ Leaves(updateAuthState(
                            World(state, afterRequest(localStorage, outcome)),
                            [isAuthenticated |-> TRUE,
                             user |-> response.user,
                             role |-> response.user.role]))
              /\ Ran("initAuth", "ok")
              /\ UNCHANGED location
       ELSE /\ loggedOut(authServiceLogout(afterRequest(localStorage, outcome), logoutOutcome))
            /\ Ran("initAuth", "logged out")

----------------------------------------------------------------------------
(* ProtectedRoute, under the routes of App *)

\* paths under the routes "/voter/*" and "/admin/*"
RoutePaths == {"/voter/dashboard", "/voter/vote", "/admin/dashboard", "/admin/settings"}

\* the role prop that App gives to the ProtectedRoute of the path
RouteRole(path) == IF path \in {"/admin/dashboard", "/admin/settings"} THEN "admin" ELSE "voter"

\* user?.role
userRole == IF authUser = null THEN NullStr ELSE authUser.role

InitRoute == routeView = [kind |-> "none"]

\* variant: the role is not compared
ProtectedRouteElement_noRoleCheck(role) ==
    IF authLoading THEN [kind |-> "spinner", role |-> role]
    ELSE IF ~authIsAuthenticated
        THEN [kind |-> "navigate", role |-> role, to |-> "/login", from |-> location]
    ELSE [kind |-> "children", role |-> role]

\* the element that ProtectedRoute returns; role is NullStr when the prop is not given
ProtectedRouteElement(role) ==
    IF authLoading THEN [kind |-> "spinner", role |-> role]
    ELSE IF ~authIsAuthenticated
        THEN [kind |-> "navigate", role |-> role, to |-> "/login", from |-> location]
    ELSE IF role # NullStr /\ userRole # role
        THEN [kind |-> "navigate", role |-> role,
              to |-> IF userRole = "admin" THEN "/admin/dashboard" ELSE "/voter/dashboard",
              from |-> NullStr]
    ELSE [kind |-> "children", role |-> role]

routeFrame ==
    /\ bioFrame
    /\ UNCHANGED <<localStorage, state, votingVars, authUser, authLoading, authIsAuthenticated,
                   hookIsLoading, hookIsAuthenticated, hookUser>>
    /\ UNCHANGED <<apiVars, txVars, ctxVars, dashVars, settingsVars, validation, providerVars>>

\* the browser is sent to a path under a protected route
visit(path) ==
    /\ location' = path
    /\ routeView' = [kind |-> "none"]
    /\ Handled
    /\ routeFrame

\* ProtectedRoute renders at the present location; <Navigate> changes the location
ProtectedRoute(role) ==
    /\ location \in RoutePaths
    /\ LET element == ProtectedRouteElement(role) IN
        /\ routeView' = element
        /\ location' = IF element.kind = "navigate" THEN element.to ELSE location
        /\ Ran("ProtectedRoute", element.kind)
    /\ routeFrame

----------------------------------------------------------------------------
(* apiService: one call through the axios instance, request by request *)

\* the deepest nesting of refresh requests that the backend drives the client to
MaxDepth == 3

REFRESH_TOKEN == "/auth/refresh-token"

\* endpoints that the services call
ApiUrls == {"/auth/verify", "/auth/logout", "/verify/complete"}

\* HTTP statuses that the backend answers with
Statuses == {200, 401, 500}

InitApi ==
    /\ apiStack = <<>>
    /\ apiOutcome = "none"
    /\ refreshCalls = 0
    /\ resends = 0

apiFrame ==
    /\ bioFrame
    /\ UNCHANGED <<state, votingVars, authUser, authLoading, authIsAuthenticated,
                   hookIsLoading, hookIsAuthenticated, hookUser>>
    /\ UNCHANGED <<routeVars, txVars, ctxVars, dashVars, settingsVars, validation, providerVars>>

\* a service calls api.post(url): the request leaves with a new config
apiRequest(url) ==
    /\ apiStack = <<>>
    /\ apiStack' = <<[url |-> url, retry |-> FALSE]>>
    /\ apiOutcome' = "pending"
    /\ refreshCalls' = 0
    /\ resends' = 0
    /\ Ran("api", "pending")
    /\ UNCHANGED <<localStorage, location>>
    /\ apiFrame

\* the request in flight is answered 200. A refresh request resolves the
\* await of the interceptor that sent it: the token is stored and the
\* request of that interceptor is sent again, with _retry still set.
apiResolves ==
    LET depth == Len(apiStack) IN
    IF depth = 1
        THEN /\ apiStack' = <<>>
             /\ apiOutcome' = "resolved"
             /\ Ran("api", "resolved")
             /\ UNCHANGED <<localStorage, location, refreshCalls, resends>>
    ELSE /\ apiStack' = SubSeq(apiStack, 1, depth - 1)
         /\ localStorage' = storageSet(localStorage, "token", "jwt-refreshed")
         /\ resends' = IF depth - 1 = 1 THEN resends + 1 ELSE resends
         /\ refreshCalls' = IF apiStack[depth - 1].url = REFRESH_TOKEN
                              THEN refreshCalls + 1 ELSE refreshCalls
         /\ Ran("api", "pending")
         /\ UNCHANGED <<apiOutcome, location>>

\* the request in flight is answered 401 and its config has no _retry: the
\* interceptor sets _retry and awaits a refresh request, itself a new config
apiRefreshes ==
    /\ apiStack' = Append([apiStack EXCEPT ![Len(apiStack)].retry = TRUE],
                          [url |-> REFRESH_TOKEN, retry |-> FALSE])
    /\ refreshCalls' = refreshCalls + 1
    /\ Ran("api", "pending")
    /\ UNCHANGED <<localStorage, location, apiOutcome, resends>>

\* the request in flight is rejected. When it is a refresh request, the catch
\* block of the interceptor that awaits it removes the tokens, sends the
\* browser to the login page and rejects in turn, down to the call.
apiRejects ==
    /\ apiStack' = <<>>
    /\ apiOutcome' = "rejected"
    /\ IF Len(apiStack) = 1
         THEN /\ Ran("api", "rejected")
              /\ UNCHANGED <<localStorage, location>>
       ELSE /\ localStorage' = storageRemove(storageRemove(localStorage, "token"),
                                             "refreshToken")
            /\ location' = "/login"
            /\ Ran("api", "refresh failed")
    /\ UNCHANGED <<refreshCalls, resends>>

\* the response interceptor, run on the answer to the request in flight
apiResponse(status) ==
    /\ apiStack # <<>>
    /\ apiFrame
    /\ IF status = 200 THEN apiResolves
       ELSE IF status = 401 /\ ~apiStack[Len(apiStack)].retry
         THEN Len(apiStack) < MaxDepth /\ apiRefreshes
       ELSE apiRejects

\* authService.login answered: the tokens are stored
tokensStored ==
    /\ apiStack = <<>>
    /\ localStorage' = storageSet(storageSet(localStorage, "token", "jwt-1"),
                                  "refreshToken", "refresh-1")
    /\ Handled
    /\ UNCHANGED <<apiVars, location>>
    /\ apiFrame

----------------------------------------------------------------------------
(* appUtils.waitForTransaction, one await at a time, and the chain *)

\* the highest block that the chain produces
MaxBlock == 5

CONFIRMATIONS_DEFAULT == 1
CONFIRMATIONS_REQUIRED == 3

InitTx ==
    /\ txPc = "idle"
    /\ txReceipt = null
    /\ txCurrentBlock = 0
    /\ confirmations = CONFIRMATIONS_DEFAULT
    /\ blockNumber = 1
    /\ txBlock = 0

txFrame ==
    /\ UNCHANGED coreVars
    /\ UNCHANGED <<routeVars, apiVars, ctxVars, dashVars, settingsVars,
                   validation, providerVars>>

\* the block of the transaction, 0 while it is not mined
web3GetTransactionReceipt ==
    IF txBlock = 0 THEN null ELSE [blockNumber |-> txBlock]

\* waitForTransaction(web3, txHash, c) is called for a transaction just
\* sent, which is still pending or already in the newest block
waitForTransaction(c) ==
    /\ txPc \in {"idle", "returned"}
    /\ txPc' = "getReceipt"
    /\ txReceipt' = null
    /\ txCurrentBlock' = 0
    /\ confirmations' = c
    /\ \E mined \in BOOLEAN : txBlock' = IF mined THEN blockNumber ELSE 0
    /\ Ran("waitForTransaction", "called")
    /\ UNCHANGED blockNumber
    /\ txFrame

\* receipt = await web3.eth.getTransactionReceipt(txHash)
getTransactionReceipt ==
    /\ txPc = "getReceipt"
    /\ txReceipt' = web3GetTransactionReceipt
    /\ txPc' = IF web3GetTransactionReceipt = null THEN "receiptSleep"
               ELSE "getBlockNumber"
    /\ UNCHANGED <<txCurrentBlock, confirmations, blockNumber, txBlock, lastOp>>
    /\ txFrame

\* the second of the first loop has passed
receiptSleep ==
    /\ txPc = "receiptSleep"
    /\ txPc' = "getReceipt"
    /\ UNCHANGED <<txReceipt, txCurrentBlock, confirmations, blockNumber, txBlock,
                   lastOp>>
    /\ txFrame

\* const currentBlock = await web3.eth.getBlockNumber()
getBlockNumber ==
    /\ txPc = "getBlockNumber"
    /\ txCurrentBlock' = blockNumber
    /\ txPc' = "confirmTest"
    /\ UNCHANGED <<txReceipt, confirmations, blockNumber, txBlock, lastOp>>
    /\ txFrame

\* while (currentBlock - receipt.blockNumber < confirmations)
confirmTest ==
    /\ txPc = "confirmTest"
    /\ IF txCurrentBlock - txReceipt.blockNumber < confirmations
         THEN txPc' = "confirmSleep" /\ UNCHANGED lastOp
       ELSE txPc' = "returned" /\ Returned("waitForTransaction", "receipt")
    /\ UNCHANGED <<txReceipt, txCurrentBlock, confirmations, blockNumber, txBlock>>
    /\ txFrame

\* the second of the second loop has passed
confirmSleep ==
    /\ txPc = "confirmSleep"
    /\ txPc' = "confirmTest"
    /\ UNCHANGED <<txReceipt, txCurrentBlock, confirmations, blockNumber, txBlock,
                   lastOp>>
    /\ txFrame

\* the chain produces a block, with or without a pending transaction
mineBlock ==
    /\ blockNumber < MaxBlock
    /\ blockNumber' = blockNumber + 1
    /\ \E included \in BOOLEAN :
           txBlock' = IF txBlock = 0 /\ txPc \notin {"idle", "returned"} /\ included
                        THEN blockNumber + 1 ELSE txBlock
    /\ UNCHANGED <<txPc, txReceipt, txCurrentBlock, confirmations, lastOp>>
    /\ txFrame

----------------------------------------------------------------------------
(* BiometricProvider (context/BiometricContext.js) and VotingPage *)

\* the requests of the provider, by the name of the function that sends them
ProviderOps == {"verifyFaceAuth", "performFaceRecognition", "detectIris", "analyzeIris"}

\* the image that the components pass to the provider
ProviderImages == {"imgA"}

\* the verificationId of a recognition result
ResultVerificationId == "ver-1"

initialVerificationState ==
    [faceDetected |-> FALSE,
     faceRecognized |-> FALSE,
     irisDetected |-> FALSE,
     irisAnalyzed |-> FALSE,
     verificationId |-> NullStr,
     images |-> [face |-> NullStr, iris |-> NullStr]]

InitContext ==
    /\ verificationState = initialVerificationState
    /\ ctxLoading = FALSE
    /\ ctxPending = {}
    /\ pageSelectedCandidate = null
    /\ pageIsVoting = FALSE
    /\ pageHasVoted = FALSE

ctxFrame ==
    /\ UNCHANGED <<verificationSession, localStorage, clock, pending, state,
                   votingVars, authUser, authLoading, authIsAuthenticated,
                   hookIsLoading, hookIsAuthenticated, hookUser>>
    /\ UNCHANGED <<routeVars, apiVars, txVars, dashVars, settingsVars, validation, providerVars>>

\* the update that a successful result passes to setVerificationState
providerUpdate(op, prev, imageData) ==
    IF op = "verifyFaceAuth"
        THEN [prev EXCEPT !.faceDetected = TRUE, !.images.face = imageData]
    ELSE IF op = "performFaceRecognition"
        THEN [prev EXCEPT !.faceRecognized = TRUE,
                          !.verificationId = ResultVerificationId]
    ELSE IF op = "detectIris"
        THEN [prev EXCEPT !.irisDetected = TRUE, !.images.iris = imageData]
    ELSE [prev EXCEPT !.irisAnalyzed = TRUE]

\* verifyFaceAuth, performFaceRecognition, detectIris or analyzeIris of the
\* provider is called: loading is set and the request leaves
providerCall(op, imageData) ==
    /\ ctxPending' = ctxPending \cup {[op |-> op, imageData |-> imageData]}
    /\ ctxLoading' = TRUE
    /\ Ran(op, "called")
    /\ UNCHANGED <<verificationState, pageSelectedCandidate, pageIsVoting,
                   pageHasVoted, location>>
    /\ ctxFrame

\* the answer to a request of the provider: the state is updated on success
\* only, loading is cleared in both cases
providerResponse(request, success) ==
    /\ request \in ctxPending
    /\ ctxPending' = ctxPending \ {request}
    /\ verificationState' = IF success
                              THEN providerUpdate(request.op, verificationState,
                                                  request.imageData)
                            ELSE verificationState
    /\ ctxLoading' = FALSE
    /\ Returned(request.op, IF success THEN "true" ELSE "false")
    /\ UNCHANGED <<pageSelectedCandidate, pageIsVoting, pageHasVoted, location>>
    /\ ctxFrame

\* resetVerification of the provider
providerResetVerification ==
    /\ verificationState' = initialVerificationState
    /\ Ran("resetVerification", "ok")
    /\ UNCHANGED <<ctxLoading, ctxPending, pageSelectedCandidate, pageIsVoting,
                   pageHasVoted, location>>
    /\ ctxFrame

\* VotingPage: a candidate card is clicked
pageSetSelectedCandidate(candidate) ==
    /\ pageSelectedCandidate' = candidate
    /\ Handled
    /\ UNCHANGED <<verificationState, ctxLoading, ctxPending, pageIsVoting,
                   pageHasVoted, location>>
    /\ ctxFrame

\* what handleVote requires of the provider's state
handleVoteCheck(vs) == vs.verificationId # NullStr

\* VotingPage.handleVote up to its await of castVote
handleVote ==
    /\ ~pageIsVoting
    /\ IF pageSelectedCandidate = null
         THEN /\ Ran("handleVote", "Selection Required")
              /\ UNCHANGED <<pageIsVoting, location>>
       ELSE IF ~handleVoteCheck(verificationState)
         THEN /\ Ran("handleVote", "Verification Required")
              /\ location' = "/voter/verify"
              /\ UNCHANGED pageIsVoting
       ELSE /\ pageIsVoting' = TRUE
            /\ Ran("handleVote", "castVote")
            /\ UNCHANGED location
    /\ UNCHANGED <<verificationState, ctxLoading, ctxPending, pageSelectedCandidate,
                   pageHasVoted>>
    /\ ctxFrame

\* castVote of the page has resolved with a result, or has thrown
handleVoteResponse(result) ==
    /\ pageIsVoting
    /\ pageIsVoting' = FALSE
    /\ pageHasVoted' = (pageHasVoted \/ result)
    /\ Returned("handleVote", IF result THEN "Success" ELSE "Error")
    /\ UNCHANGED <<verificationState, ctxLoading, ctxPending, pageSelectedCandidate,
                   location>>
    /\ ctxFrame

----------------------------------------------------------------------------
(* pages/voter/Dashboard.js with the four components it renders *)

VerificationStep ==
    [FACE_DETECTION |-> 0,
     FACE_RECOGNITION |-> 1,
     IRIS_DETECTION |-> 2,
     IRIS_ANALYSIS |-> 3,
     COMPLETE |-> 4]

\* the requests of the page, by what they ask for
DashRequestKinds ==
    {"voterInfo", "faceAuth", "recognition", "irisDetection", "analysis", "complete"}

\* a request in flight; `rerun` tells the request of a repeated effect from
\* the one that is already in flight
DashRequest(kind, requests) ==
    [kind |-> kind, rerun |-> \E r \in requests : r.kind = kind]

\* the page is mounted: fetchVoterInfo is on its way
InitDashboard ==
    /\ currentStep = VerificationStep.FACE_DETECTION
    /\ dashboardData = [faceImage |-> NullStr, irisImage |-> NullStr,
                        verificationId |-> NullStr]
    /\ isVerified = FALSE
    /\ dashRequests = {[kind |-> "voterInfo", rerun |-> FALSE]}

dashFrame ==
    /\ UNCHANGED coreVars
    /\ UNCHANGED <<routeVars, apiVars, txVars, ctxVars, settingsVars, validation, providerVars>>

\* the requests in flight after Dashboard has rendered again: the handlers
\* are new functions, so the effect of the panel that is shown runs again,
\* FaceRecognition with its faceImage, IrisAnalyzer with its irisImage
afterRender(step, data, requests) ==
    IF step = VerificationStep.FACE_RECOGNITION /\ data.faceImage # NullStr
        THEN requests \cup {DashRequest("recognition", requests)}
    ELSE IF step = VerificationStep.IRIS_ANALYSIS /\ data.irisImage # NullStr
        THEN requests \cup {DashRequest("analysis", requests)}
    ELSE requests

\* the Capture button of FaceDetector or IrisDetector, which is disabled
\* while its own request is in flight
capture(kind) ==
    /\ \/ kind = "faceAuth" /\ currentStep = VerificationStep.FACE_DETECTION
       \/ kind = "irisDetection" /\ currentStep = VerificationStep.IRIS_DETECTION
    /\ ~\E r \in dashRequests : r.kind = kind
    /\ dashRequests' = dashRequests \cup {DashRequest(kind, dashRequests)}
    /\ Ran(kind, "called")
    /\ UNCHANGED <<currentStep, dashboardData, isVerified>>
    /\ dashFrame

\* a request of the page is answered without success, or fails
dashFailure(request) ==
    /\ request \in dashRequests
    /\ dashRequests' = dashRequests \ {request}
    /\ Returned(request.kind, "failure")
    /\ UNCHANGED <<currentStep, dashboardData, isVerified>>
    /\ dashFrame

\* fetchVoterInfo is answered: voterInfo and isVerified are set
fetchVoterInfoSuccess(request, verified) ==
    /\ request \in dashRequests
    /\ request.kind = "voterInfo"
    /\ isVerified' = verified
    /\ dashRequests' = afterRender(currentStep, dashboardData, dashRequests \ {request})
    /\ Returned(request.kind, "success")
    /\ UNCHANGED <<currentStep, dashboardData>>
    /\ dashFrame

\* handleFaceDetectionComplete, handleFaceRecognitionComplete and
\* handleIrisDetectionComplete, called by the component whose request
\* has succeeded
handleStepComplete(request, value) ==
    /\ request \in dashRequests
    /\ request.kind \in {"faceAuth", "recognition", "irisDetection"}
    /\ dashboardData' =
           IF request.kind = "faceAuth"
               THEN [dashboardData EXCEPT !.faceImage = value]
           ELSE IF request.kind = "recognition"
               THEN [dashboardData EXCEPT !.verificationId = value]
           ELSE [dashboardData EXCEPT !.irisImage = value]
    /\ currentStep' =
           IF request.kind = "faceAuth" THEN VerificationStep.FACE_RECOGNITION
           ELSE IF request.kind = "recognition" THEN VerificationStep.IRIS_DETECTION
           ELSE VerificationStep.IRIS_ANALYSIS
    /\ dashRequests' = afterRender(currentStep', dashboardData', dashRequests \ {request})
    /\ Returned(request.kind, "success")
    /\ UNCHANGED isVerified
    /\ dashFrame

\* handleIrisAnalysisComplete up to its fetch of /api/verify/complete
handleIrisAnalysisComplete(request) ==
    /\ request \in dashRequests
    /\ request.kind = "analysis"
    /\ dashRequests' = (dashRequests \ {request})
                           \cup {DashRequest("complete", dashRequests)}
    /\ Returned(request.kind, "success")
    /\ UNCHANGED <<currentStep, dashboardData, isVerified>>
    /\ dashFrame

\* handleIrisAnalysisComplete after /api/verify/complete answered success
completeSuccess(request) ==
    /\ request \in dashRequests
    /\ request.kind = "complete"
    /\ isVerified' = TRUE
    /\ currentStep' = VerificationStep.COMPLETE
    /\ dashRequests' = afterRender(currentStep', dashboardData, dashRequests \ {request})
    /\ Returned(request.kind, "success")
    /\ UNCHANGED dashboardData
    /\ dashFrame

----------------------------------------------------------------------------
(* pages/admin Settings: the settings object and handleChange *)

\* JavaScript values of the settings object, told apart by their type
JsBool(b) == [bool |-> b]

JsNum(n) == [num |-> n]

JsObject(fields) == [obj |-> fields]

\* { ...value }: the own properties of an object, none for a boolean or a number
Spread(value) ==
    IF "obj" \in DOMAIN value THEN value.obj ELSE [key \in {} |-> JsBool(FALSE)]

\* the property name that a computed key gives: String(field)
PropertyKey(field) == field

\* the sections of the settings that the model follows
initialSettings ==
    [votingEnabled |-> JsBool(FALSE),
     verificationThreshold |-> JsNum(85),
     securitySettings |-> JsObject([maxLoginAttempts |-> JsNum(3),
                                    sessionTimeout |-> JsNum(30),
                                    requireTwoFactor |-> JsBool(FALSE)])]

\* settings that /api/admin/settings answers with
loadedSettings ==
    [votingEnabled |-> JsBool(TRUE),
     verificationThreshold |-> JsNum(90),
     securitySettings |-> JsObject([maxLoginAttempts |-> JsNum(5),
                                    sessionTimeout |-> JsNum(30),
                                    requireTwoFactor |-> JsBool(TRUE)])]

\* the calls of handleChange that the inputs of the page make; the field of
\* a call without a field is null
HandleChangeCalls ==
    {[section |-> "votingEnabled", field |-> NullStr, value |-> JsBool(b)] :
         b \in BOOLEAN}
    \cup {[section |-> "verificationThreshold", field |-> NullStr, value |-> JsNum(n)] :
              n \in {85, 90}}
    \cup {[section |-> "securitySettings", field |-> "maxLoginAttempts",
           value |-> JsNum(n)] : n \in {3, 5}}
    \cup {[section |-> "securitySettings", field |-> "requireTwoFactor",
           value |-> JsBool(b)] : b \in BOOLEAN}

InitSettings ==
    /\ settings = initialSettings
    /\ hasChanges = FALSE

settingsFrame ==
    /\ UNCHANGED coreVars
    /\ UNCHANGED <<routeVars, apiVars, txVars, ctxVars, dashVars, validation, providerVars>>

\* typeof field === 'string' ? value : { ...prev[section], [field]: value }
sectionAfterChange(prev, section, field, value) ==
    IF field # NullStr
        THEN value
    ELSE JsObject(Merge(Spread(prev[section]),
                        [key \in {PropertyKey(field)} |-> value]))

handleChange(section, field, value) ==
    /\ settings' = [settings EXCEPT
                        ![section] = sectionAfterChange(settings, section, field, value)]
    /\ hasChanges' = TRUE
    /\ lastOp' = [op |-> "handleChange", result |-> section,
                  data |-> [field |-> field, value |-> value]]
    /\ settingsFrame

\* loadSettings, answered with success
loadSettingsSuccess ==
    /\ settings' = loadedSettings
    /\ Ran("loadSettings", "success")
    /\ UNCHANGED hasChanges
    /\ settingsFrame

\* handleSave, answered with success
handleSaveSuccess ==
    /\ hasChanges' = FALSE
    /\ Ran("handleSave", "success")
    /\ UNCHANGED settings
    /\ settingsFrame

----------------------------------------------------------------------------
(* biometricUtils.validateVerificationSession *)

requiredSteps == <<"faceDetection", "faceRecognition", "irisDetection", "irisAnalysis">>

\* the elements of an array
Elements(array) == {array[i] : i \in DOMAIN array}

\* Object.keys of a steps map, in the order in which the service writes them
ObjectKeys(session) == SelectSeq(requiredSteps, LAMBDA step : step \in DOMAIN session)

\* variant: progress counts the steps that are not completed
validateVerificationSession_remainingProgress(session) ==
    LET completedSteps == SelectSeq(ObjectKeys(session),
                                    LAMBDA step : session[step].completed)
        remainingSteps == SelectSeq(requiredSteps,
                                    LAMBDA step : step \notin Elements(completedSteps))
    IN  [isComplete |-> \A step \in Elements(requiredSteps) :
                            step \in Elements(completedSteps),
         completedSteps |-> completedSteps,
         remainingSteps |-> remainingSteps,
         progress |-> (Len(remainingSteps) * 100) \div Len(requiredSteps)]

validateVerificationSession(session) ==
    LET completedSteps == SelectSeq(ObjectKeys(session),
                                    LAMBDA step : session[step].completed)
    IN  [isComplete |-> \A step \in Elements(requiredSteps) :
                            step \in Elements(completedSteps),
         completedSteps |-> completedSteps,
         remainingSteps |-> SelectSeq(requiredSteps,
                                      LAMBDA step : step \notin Elements(completedSteps)),
         progress |-> (Len(completedSteps) * 100) \div Len(requiredSteps)]

\* what the service writes for a step: the entry of a new session, or a
\* completed entry with its score and the instant of its completion
StepEntries ==
    {[completed |-> FALSE, score |-> 0]}
    \cup {[completed |-> TRUE, score |-> score, timestamp |-> Instants[i]] :
              score \in {6, 97}, i \in DOMAIN Instants}

InitValidation == validation = null

\* validateVerificationSession is called with a steps map
validate(steps) ==
    /\ validation' = [session |-> steps, result |-> validateVerificationSession(steps)]
    /\ Ran("validateVerificationSession", "ok")
    /\ UNCHANGED coreVars
    /\ UNCHANGED <<routeVars, apiVars, txVars, ctxVars, dashVars, settingsVars, providerVars>>


----------------------------------------------------------------------------
(* AuthProvider, request by request: a handler is called, awaits its fetch *)
(* and continues when the answer arrives                                   *)

InitProvider == authRequests = {}

providerFrame ==
    /\ bioFrame
    /\ UNCHANGED <<state, votingVars, hookIsLoading, hookIsAuthenticated, hookUser>>
    /\ UNCHANGED <<routeVars, apiVars, txVars, ctxVars, dashVars, settingsVars, validation>>

\* what AuthProvider renders: the loading text, or the provider with its children
AuthProviderRender == IF authLoading THEN "Loading..." ELSE "children"

\* { ...prevUser, ...user } of updateProfile, where prevUser may be null
mergeUser(prevUser, user) ==
    IF prevUser = null THEN user ELSE Merge(prevUser, user)

\* the page is loaded: AuthProvider mounts with its initial state and its
\* effect runs checkAuthStatus up to the fetch of /api/auth/verify
AuthProviderMount ==
    /\ authUser' = null
    /\ authIsAuthenticated' = FALSE
    /\ IF localStorage["token"] = ABSENT
         THEN /\ authLoading' = FALSE
              /\ authRequests' = {}
              /\ Ran("checkAuthStatus", "no token")
       ELSE /\ authLoading' = TRUE
            /\ authRequests' = {"verify"}
            /\ Ran("checkAuthStatus", "called")
    /\ UNCHANGED <<localStorage, location>>
    /\ providerFrame

\* variant: a token that the backend rejects stays in local storage
checkAuthStatusAnswered_keepsToken(threw, data) ==
    /\ "verify" \in authRequests
    /\ authRequests' = authRequests \ {"verify"}
    /\ authLoading' = FALSE
    /\ IF ~threw /\ data.success
         THEN /\ authUser' = data.user
              /\ authIsAuthenticated' = TRUE
              /\ Ran("checkAuthStatus", "ok")
              /\ UNCHANGED localStorage
       ELSE /\ authUser' = null
            /\ authIsAuthenticated' = FALSE
            /\ Ran("checkAuthStatus", IF threw THEN "Auth check failed" ELSE "invalid token")
            /\ UNCHANGED localStorage
    /\ UNCHANGED location
    /\ providerFrame

\* checkAuthStatus after its fetch: the answer, or an exception
checkAuthStatusAnswered(threw, data) ==
    /\ "verify" \in authRequests
    /\ authRequests' = authRequests \ {"verify"}
    /\ authLoading' = FALSE
    /\ IF threw
         THEN /\ authUser' = null
              /\ authIsAuthenticated' = FALSE
              /\ Ran("checkAuthStatus", "Auth check failed")
              /\ UNCHANGED localStorage
       ELSE IF data.success
         THEN /\ authUser' = data.user
              /\ authIsAuthenticated' = TRUE
              /\ Ran("checkAuthStatus", "ok")
              /\ UNCHANGED localStorage
       ELSE /\ localStorage' = storageRemove(localStorage, "token")
            /\ authUser' = null
            /\ authIsAuthenticated' = FALSE
            /\ Ran("checkAuthStatus", "invalid token")
    /\ UNCHANGED location
    /\ providerFrame

\* login, logout or updateProfile is called by a child of the provider and
\* sends its request
providerCalled(op) ==
    /\ AuthProviderRender = "children"
    /\ op \in {"login", "logout", "updateProfile"}
    /\ authRequests' = authRequests \cup {op}
    /\ Ran(op, "called")
    /\ UNCHANGED <<localStorage, location, authUser, authIsAuthenticated, authLoading>>
    /\ providerFrame

\* login after its fetch
loginAnswered(threw, data) ==
    /\ "login" \in authRequests
    /\ authRequests' = authRequests \ {"login"}
    /\ IF ~threw /\ data.success
         THEN /\ localStorage' = [localStorage EXCEPT !["token"] = [text |-> data.token]]
              /\ authUser' = data.user
              /\ authIsAuthenticated' = TRUE
              /\ location' = dashboardOf(data.user)
              /\ Returned("login", "true")
       ELSE /\ Returned("login", "false")
            /\ UNCHANGED <<localStorage, authUser, authIsAuthenticated, location>>
    /\ UNCHANGED authLoading
    /\ providerFrame

\* the finally block of logout, after its fetch has been answered or failed
logoutAnswered(threw) ==
    /\ "logout" \in authRequests
    /\ authRequests' = authRequests \ {"logout"}
    /\ localStorage' = storageRemove(localStorage, "token")
    /\ authUser' = null
    /\ authIsAuthenticated' = FALSE
    /\ location' = "/"
    /\ Returned("logout", IF threw THEN "Logout error" ELSE "ok")
    /\ UNCHANGED authLoading
    /\ providerFrame

\* updateProfile after its fetch
updateProfileAnswered(threw, data) ==
    /\ "updateProfile" \in authRequests
    /\ authRequests' = authRequests \ {"updateProfile"}
    /\ IF ~threw /\ data.success
         THEN /\ authUser' = mergeUser(authUser, data.user)
              /\ Returned("updateProfile", "true")
       ELSE /\ Returned("updateProfile", "false")
            /\ UNCHANGED authUser
    /\ UNCHANGED <<localStorage, location, authIsAuthenticated, authLoading>>
    /\ providerFrame

\* the pages and utilities as they are constructed
InitPages ==
    /\ InitRoute
    /\ InitApi
    /\ InitTx
    /\ InitContext
    /\ InitDashboard
    /\ InitSettings
    /\ InitValidation
    /\ InitProvider

----------------------------------------------------------------------------
(* The verification session, one operation at a time *)

\* the hooks, the providers and StateService as they are constructed
InitApp ==
    /\ state = [auth |-> defaultAuth,
                voting |-> defaultVoting,
                verification |-> defaultVerification,
                network |-> defaultNetwork,
                settings |-> defaultSettings]
    /\ isLoading = FALSE
    /\ candidates = <<>>
    /\ votingStats = null
    /\ hasVoted = FALSE
    /\ selectedCandidate = null
    /\ contractAccount = NullStr
    /\ chainVotes = {}
    /\ votePending = null
    /\ voteResolved = FALSE
    /\ authUser = null
    /\ authLoading = TRUE
    /\ authIsAuthenticated = FALSE
    /\ hookIsLoading = TRUE
    /\ hookIsAuthenticated = FALSE
    /\ hookUser = null
    /\ location = "/"
    /\ InitPages

Init ==
    /\ verificationSession = null
    /\ localStorage = [key \in StorageKeys |-> ABSENT]
    /\ clock = 1
    /\ pending = null
    /\ lastOp = [op |-> "constructor", result |-> "ok"]
    /\ InitApp

\* the operations of one BiometricService object, within one page lifetime
NextSession ==
    \/ initializeSession
    \/ getSession
    \/ getVerificationStatus
    \/ clearSession
    \/ \E imageData \in ImageInputs : verifyFaceAuth(imageData)
    \/ \E response \in DetectionResponses(FaceDetections) : verifyFaceAuthResponse(response)
    \/ \E imageData \in Images : performFaceRecognition(imageData)
    \/ \E response \in ConfidenceResponses : performFaceRecognitionResponse(response)
    \/ \E imageData \in ImageInputs : detectIris(imageData)
    \/ \E response \in DetectionResponses(IrisDetections) : detectIrisResponse(response)
    \/ \E imageData \in Images : analyzeIris(imageData)
    \/ \E response \in ConfidenceResponses : analyzeIrisResponse(response)
    \/ \E walletAddress \in Wallets : completeVerification(walletAddress)
    \/ \E response \in CompletionResponses : completeVerificationResponse(response)
    \/ Tick

\* a page load constructs the service anew and keeps local storage
Next ==
    \/ constructor
    \/ NextSession

Spec == Init /\ [][Next]_vars

SpecSession == Init /\ [][NextSession]_vars

----------------------------------------------------------------------------
(* The useVoting hook, with a verification session that is absent or has *)
(* all four steps completed                                               *)

CompletedSession ==
    [id |-> "uuid-1",
     startTime |-> Instants[1],
     steps |-> [faceDetection |-> [completed |-> TRUE, score |-> 6, timestamp |-> Instants[1]],
                faceRecognition |-> [completed |-> TRUE, score |-> 97, timestamp |-> Instants[1]],
                irisDetection |-> [completed |-> TRUE, score |-> 7, timestamp |-> Instants[1]],
                irisAnalysis |-> [completed |-> TRUE, score |-> 97, timestamp |-> Instants[1]]],
     images |-> [face |-> "imgA", iris |-> "imgB"],
     verificationHash |-> NullStr]

InitVoting ==
    /\ verificationSession \in {null, CompletedSession}
    /\ localStorage = [key \in StorageKeys |->
                          IF key = "verificationSession" /\ verificationSession # null
                            THEN [json |-> verificationSession]
                          ELSE ABSENT]
    /\ clock = 1
    /\ pending = null
    /\ lastOp = [op |-> "constructor", result |-> "ok"]
    /\ InitApp

NextVoting ==
    \/ \E walletAccount \in Wallets : initialize(walletAccount)
    \/ \E walletAccount \in Wallets : connectWallet(walletAccount)
    \/ disconnectWallet
    \/ \E accounts \in {<<>>} \cup {<<a>> : a \in Wallets} : accountsChanged(accounts)
    \/ resetVerification
    \/ \E ok \in BOOLEAN : loadCandidates(ok)
    \/ \E ok \in BOOLEAN : loadVotingStats(ok)
    \/ \E ok \in BOOLEAN : checkVoteStatus(ok)
    \/ \E candidate \in {null} \cup [id : CandidateIds] : setSelectedCandidate(candidate)
    \/ \E candidateId \in CandidateIds : castVote(candidateId)
    \/ transactionMined
    \/ \E candidatesOk, statsOk \in BOOLEAN : castVoteResolves(candidatesOk, statsOk)
    \/ castVoteRejects
    \/ \E voter \in Wallets, candidatesOk, statsOk \in BOOLEAN :
           onVoteCast(voter, candidatesOk, statsOk)

SpecVoting == InitVoting /\ [][NextVoting]_vars

----------------------------------------------------------------------------
(* Logging in and out, through AuthProvider and through useAuth, with the *)
(* handlers that fill the stored slices of StateService                   *)

NextAuth ==
    \/ \E threw \in BOOLEAN, data \in VerifyResponses : checkAuthStatus(threw, data)
    \/ \E threw \in BOOLEAN, data \in LoginResponses : login(threw, data)
    \/ \E threw \in BOOLEAN : logout(threw)
    \/ \E outcome \in ApiOutcomes, response \in LoginResponses : useAuthLogin(outcome, response)
    \/ \E outcome \in ApiOutcomes : handleLogout(outcome)
    \/ \E outcome, logoutOutcome \in ApiOutcomes, response \in VerifyResponses :
           initAuth(outcome, response, logoutOutcome)
    \/ \E ok \in BOOLEAN : loadCandidates(ok)
    \/ resetVerification

SpecAuth == Init /\ [][NextAuth]_vars

----------------------------------------------------------------------------
(* Properties of the verification session (Spec) *)

SessionKey == "verificationSession"

storedSession == storageGet(localStorage, SessionKey, null)

Completed(session, step) == session.steps[step].completed

\* all four required steps of the session are completed
AllStepsCompleted(session) ==
    session # null /\ \A step \in RequiredSteps : Completed(session, step)

StepOrder(session) ==
    session # null =>
        /\ Completed(session, "faceRecognition") => Completed(session, "faceDetection")
        /\ Completed(session, "irisDetection") => Completed(session, "faceRecognition")
        /\ Completed(session, "irisAnalysis") => Completed(session, "irisDetection")

\* C1: with one operation at a time, every session, in memory and in local
\* storage, has its steps completed in the fixed order: face recognition only
\* after face detection, iris detection only after face recognition, iris
\* analysis only after iris detection.
C1_StepOrder == StepOrder(verificationSession) /\ StepOrder(storedSession)

\* iris analysis has just completed, as the last of the four steps
C1_Witness ==
    /\ lastOp = [op |-> "analyzeIris", result |-> "ok"]
    /\ AllStepsCompleted(verificationSession)

\* C2: isVerificationComplete() is true exactly when a session exists and
\* each of faceDetection, faceRecognition, irisDetection and irisAnalysis is
\* completed; it is false without a session and with any flag false.
C2_CompleteIffAllFour ==
    /\ isVerificationComplete(verificationSession) <=> AllStepsCompleted(verificationSession)
    /\ isVerificationComplete(storedSession) <=> AllStepsCompleted(storedSession)
    /\ verificationSession # null => DOMAIN verificationSession.steps = RequiredSteps

\* a session with three steps completed and one not: not yet complete
C2_Witness ==
    /\ verificationSession # null
    /\ Completed(verificationSession, "irisDetection")
    /\ ~Completed(verificationSession, "irisAnalysis")
    /\ ~isVerificationComplete(verificationSession)

MutatingOps == {"initializeSession", "verifyFaceAuth", "performFaceRecognition",
                "detectIris", "analyzeIris", "completeVerification", "clearSession"}

\* C3: within one page lifetime, whenever a mutating operation has returned,
\* with success or with an error, local storage holds the in-memory session
\* under 'verificationSession', and does not hold the key when there is no
\* in-memory session.
C3_StoredEqualsMemory ==
    (pending = null /\ lastOp.op \in MutatingOps) =>
        IF verificationSession = null
          THEN localStorage[SessionKey] = ABSENT
        ELSE localStorage[SessionKey] = [json |-> verificationSession]

FreshSession(session) ==
    /\ session # null
    /\ \A step \in RequiredSteps : ~Completed(session, step)
    /\ session.images = [face |-> NullStr, iris |-> NullStr]
    /\ session.verificationHash = NullStr

\* C4: right after clearSession there is no session in memory and no
\* 'verificationSession' key, getSession() and getVerificationStatus() return
\* null, isVerificationComplete() is false and the progress is 0; right
\* after initializeSession the session has no step completed, no image and
\* no verification hash.
C4_ClearDestroys ==
    /\ lastOp.op = "clearSession" =>
           /\ verificationSession = null
           /\ localStorage[SessionKey] = ABSENT
           /\ getSessionValue(verificationSession, localStorage) = null
           /\ getVerificationStatusValue(verificationSession, localStorage) = null
           /\ ~isVerificationComplete(verificationSession)
           /\ getVerificationProgress(verificationSession) = 0
    /\ lastOp.op = "initializeSession" =>
           /\ FreshSession(verificationSession)
           /\ storedSession = verificationSession

\* a session is created at the later instant, after a clearSession
C4_Witness ==
    /\ lastOp.op = "initializeSession"
    /\ verificationSession # null
    /\ verificationSession.startTime = Instants[Len(Instants)]

NoImageData(session) ==
    session # null => session.images = [face |-> NullStr, iris |-> NullStr]

\* C5: once completeVerification has resolved, neither the in-memory
\* session nor local storage holds a captured face or iris image.
C5_ImagesCleared ==
    lastOp = [op |-> "completeVerification", result |-> "ok"] =>
        NoImageData(verificationSession) /\ NoImageData(storedSession)

C5_Witness ==
    /\ lastOp = [op |-> "completeVerification", result |-> "ok"]
    /\ pending = null

\* the step is a call of the BiometricService operation op
Called(op) == pending = null /\ lastOp'.op = op /\ lastOp' # lastOp

\* C6: a call of completeVerification without a session, or with a step not
\* completed, is rejected with 'All verification steps must be completed',
\* sends no request and leaves the session unchanged in memory and in local
\* storage (so that no verification hash is stored).
C6_RejectsIncomplete ==
    [][(Called("completeVerification") /\ ~AllStepsCompleted(verificationSession)) =>
          /\ lastOp'.result = "All verification steps must be completed"
          /\ pending' = null
          /\ verificationSession' = verificationSession
          /\ localStorage' = localStorage]_vars

\* completeVerification was rejected for a session that has steps left
C6_Witness ==
    /\ lastOp = [op |-> "completeVerification",
                 result |-> "All verification steps must be completed"]
    /\ verificationSession # null
    /\ Completed(verificationSession, "faceDetection")

\* C7: the completion request carries the hash of the session's face image,
\* its iris image, an instant and the wallet address that was passed; that
\* hash is the one in session.verificationHash; the request carries the
\* session's id and its steps.
C7_HashSent ==
    (pending # null /\ pending.op = "completeVerification" /\ verificationSession # null) =>
        /\ \E i \in 1..Len(Instants) :
               pending.request.verificationHash =
                   generateVerificationHash(
                       [faceData |-> verificationSession.images.face,
                        irisData |-> verificationSession.images.iris,
                        timestamp |-> Instants[i],
                        walletAddress |-> pending.walletAddress])
        /\ pending.request.verificationHash = verificationSession.verificationHash
        /\ pending.request.walletAddress = pending.walletAddress
        /\ pending.request.sessionId = verificationSession.id
        /\ pending.request.steps = verificationSession.steps

\* a second completion request, after one that failed and left its hash
C7_Witness ==
    /\ pending # null
    /\ pending.op = "completeVerification"
    /\ verificationSession # null
    /\ storedSession # null
    /\ verificationSession.images.face # verificationSession.images.iris
    /\ pending.walletAddress = "0xB"

----------------------------------------------------------------------------
(* Properties of useVoting (SpecVoting) *)

\* the step is a call of useVoting.castVote
CastVoteCalled == votePending = null /\ lastOp'.op = "castVote" /\ lastOp' # lastOp

MayVote == isConnected /\ AllStepsCompleted(verificationSession) /\ ~hasVoted

\* the error of the first check of castVote that fails
ExpectedRefusal ==
    IF ~isConnected THEN "Please connect your wallet first"
    ELSE IF ~AllStepsCompleted(verificationSession)
        THEN "Please complete biometric verification first"
    ELSE "You have already voted"

CastVoteSucceeded == lastOp' = [op |-> "castVote", result |-> "ok"] /\ lastOp' # lastOp

CastVoteFailed ==
    /\ lastOp'.op = "castVote"
    /\ lastOp'.result \in {"Transaction failed", "TypeError"}
    /\ lastOp' # lastOp

----------------------------------------------------------------------------
(* Properties of logging out (SpecAuth) *)

\* C10: after logout has finished, whether the logout request succeeded or
\* threw: with AuthProvider, isAuthenticated is false, user is null and
\* 'token' is not in local storage; with useAuth, isAuthenticated is false,
\* user is null, 'token' and 'refreshToken' are not in local storage, the
\* auth slice of StateService is {isAuthenticated: false, user: null,
\* role: null}, and 'authState', 'votingState' and 'verificationState' are
\* not in local storage.
C10_LogoutClears ==
    /\ lastOp.op = "logout" =>
           /\ ~authIsAuthenticated
           /\ authUser = null
           /\ localStorage["token"] = ABSENT
    /\ lastOp.op = "handleLogout" =>
           /\ ~hookIsAuthenticated
           /\ hookUser = null
           /\ localStorage["token"] = ABSENT
           /\ localStorage["refreshToken"] = ABSENT
           /\ state.auth = [isAuthenticated |-> FALSE, user |-> null, role |-> NullStr]
           /\ localStorage["authState"] = ABSENT
           /\ localStorage["votingState"] = ABSENT
           /\ localStorage["verificationState"] = ABSENT

\* useAuth has logged out although the logout request threw
C10_Witness ==
    /\ lastOp = [op |-> "handleLogout", result |-> "Logout error"]
    /\ location = "/login"

----------------------------------------------------------------------------
(* ProtectedRoute over the states of AuthProvider (SpecRoute) *)

NextRoute ==
    \/ \E threw \in BOOLEAN, data \in VerifyResponses : checkAuthStatus(threw, data)
    \/ \E threw \in BOOLEAN, data \in LoginResponses : login(threw, data)
    \/ \E threw \in BOOLEAN : logout(threw)
    \/ \E path \in RoutePaths : visit(path)
    \/ \E role \in {NullStr, RouteRole(location)} : ProtectedRoute(role)

SpecRoute == Init /\ [][NextRoute]_vars

\* C11: ProtectedRoute renders its children exactly when loading is false,
\* isAuthenticated is true and no role is required or user.role is the
\* required role; while loading it renders a spinner; an unauthenticated
\* visitor is sent to /login with the requested location in state.from; an
\* authenticated user of another role is sent to /admin/dashboard when an
\* admin and to /voter/dashboard otherwise.
C11_ProtectedRoute ==
    [][lastOp'.op = "ProtectedRoute" =>
          LET role == routeView'.role
              allowed == ~authLoading /\ authIsAuthenticated
                            /\ (role = NullStr \/ userRole = role)
          IN /\ routeView'.kind = "children" <=> allowed
             /\ authLoading => routeView'.kind = "spinner" /\ location' = location
             /\ (~authLoading /\ ~authIsAuthenticated) =>
                    /\ routeView'.kind = "navigate"
                    /\ routeView'.to = "/login"
                    /\ routeView'.from = location
                    /\ location' = "/login"
             /\ (~authLoading /\ authIsAuthenticated /\ ~allowed) =>
                    /\ routeView'.kind = "navigate"
                    /\ routeView'.to = (IF userRole = "admin" THEN "/admin/dashboard"
                                        ELSE "/voter/dashboard")
                    /\ location' = routeView'.to
             /\ routeView'.kind \in {"children", "spinner", "navigate"}]_vars

\* a voter asked for an admin page and was sent to the voter dashboard
C11_Witness ==
    /\ lastOp = [op |-> "ProtectedRoute", result |-> "navigate"]
    /\ routeView.role = "admin"
    /\ routeView.to = "/voter/dashboard"
    /\ location = "/voter/dashboard"
    /\ authIsAuthenticated

----------------------------------------------------------------------------
(* Failed steps of the verification session (Spec) *)

StepOps == {"verifyFaceAuth", "performFaceRecognition", "detectIris", "analyzeIris"}

\* the ordering precondition of the step operation op
OrderingMet(op, session) ==
    CASE op = "verifyFaceAuth" -> TRUE
      [] op = "performFaceRecognition" -> session # null /\ Completed(session, "faceDetection")
      [] op = "detectIris" -> session # null /\ Completed(session, "faceRecognition")
      [] op = "analyzeIris" -> session # null /\ Completed(session, "irisDetection")

OrderingError(op) ==
    CASE op = "performFaceRecognition" -> "Face detection must be completed first"
      [] op = "detectIris" -> "Face recognition must be completed first"
      [] op = "analyzeIris" -> "Iris detection must be completed first"

\* the step is a step operation ending with an error
StepFailed ==
    /\ lastOp'.op \in StepOps
    /\ lastOp'.result \notin {"ok", "pending"}
    /\ lastOp' # lastOp

\* C14: a step operation that fails (its ordering precondition is not met,
\* the backend answers success = false, or the request throws) rejects with
\* an error and leaves the session as it was, in memory and in local
\* storage: no completed flag, score, timestamp or image changes; when the
\* ordering precondition is not met, no request is made.
C14_FailedStepKeepsSession ==
    [][/\ StepFailed =>
              /\ verificationSession' = verificationSession
              /\ localStorage' = localStorage
              /\ pending' = null
       /\ \A op \in StepOps :
              (Called(op) /\ ~OrderingMet(op, verificationSession)) =>
                  /\ pending' = null
                  /\ lastOp'.result = OrderingError(op)
                  /\ verificationSession' = verificationSession
                  /\ localStorage' = localStorage]_vars

\* iris detection was refused by the backend, after two completed steps
C14_Witness ==
    /\ lastOp = [op |-> "detectIris", result |-> "Rejected by backend"]
    /\ verificationSession # null
    /\ Completed(verificationSession, "faceRecognition")
    /\ ~Completed(verificationSession, "irisDetection")
    /\ storedSession = verificationSession

----------------------------------------------------------------------------
(* The response interceptor (SpecApi) *)

NextApi ==
    \/ \E url \in ApiUrls : apiRequest(url)
    \/ \E status \in Statuses : apiResponse(status)
    \/ tokensStored

SpecApi == Init /\ [][NextApi]_vars

\* C12: a request that fails with 401 causes at most one call of the
\* refresh-token endpoint and at most one re-send of the request; when the
\* refresh call fails, 'token' and 'refreshToken' are removed, the browser
\* is at the login route and the request is rejected.
C12_BoundedRetry ==
    /\ refreshCalls <= 1
    /\ resends <= 1
    /\ lastOp = [op |-> "api", result |-> "refresh failed"] =>
           /\ localStorage["token"] = ABSENT
           /\ localStorage["refreshToken"] = ABSENT
           /\ location = "/login"
           /\ apiOutcome = "rejected"

----------------------------------------------------------------------------
(* Waiting for confirmations (SpecTx) *)

waitStep ==
    \/ getTransactionReceipt
    \/ receiptSleep
    \/ getBlockNumber
    \/ confirmTest
    \/ confirmSleep

NextTx ==
    \/ \E c \in {CONFIRMATIONS_DEFAULT, CONFIRMATIONS_REQUIRED} : waitForTransaction(c)
    \/ waitStep
    \/ mineBlock

\* timers and web3 calls of a running waitForTransaction do complete, and
\* the chain produces its blocks
SpecTx == Init /\ [][NextTx]_vars /\ WF_vars(waitStep) /\ WF_vars(mineBlock)

\* the transaction is mined and has the confirmations that the call asks for
Confirmed == txBlock # 0 /\ blockNumber - txBlock >= confirmations

\* C13: once the transaction is mined and the chain has produced the
\* blocks that confirm it, a running waitForTransaction returns the receipt.
C13_EventuallyReturns ==
    (txPc \notin {"idle", "returned"} /\ Confirmed) ~> (txPc = "returned")

\* C13, the part that holds: waitForTransaction returns only when the block
\* number it read is at least `confirmations` past the block of the receipt.
C13_ReturnsOnlyConfirmed ==
    (txPc = "returned") =>
        txReceipt # null /\ txCurrentBlock - txReceipt.blockNumber >= confirmations

----------------------------------------------------------------------------
(* BiometricProvider and VotingPage (SpecContext) *)

NextContext ==
    \/ \E op \in ProviderOps, imageData \in ProviderImages : providerCall(op, imageData)
    \/ \E request \in ctxPending, success \in BOOLEAN : providerResponse(request, success)
    \/ providerResetVerification
    \/ \E id \in CandidateIds   : pageSetSelectedCandidate([id |-> id])
    \/ handleVote
    \/ \E result \in BOOLEAN : handleVoteResponse(result)

SpecContext == Init /\ [][NextContext]_vars

\* C15: in the provider's state faceRecognized implies faceDetected,
\* irisDetected implies faceRecognized and irisAnalyzed implies irisDetected,
\* whatever calls were made.
C15_ContextStepOrder ==
    /\ verificationState.faceRecognized => verificationState.faceDetected
    /\ verificationState.irisDetected => verificationState.faceRecognized
    /\ verificationState.irisAnalyzed => verificationState.irisDetected

\* C16: handleVote calls castVote only when a candidate is selected and the
\* provider reports all four checks passed; otherwise it calls nothing, and
\* it navigates to /voter/verify when the verification is what is missing.
C16_HandleVoteGuard ==
    [][lastOp'.op = "handleVote" /\ ~pageIsVoting =>
         IF pageSelectedCandidate # null
            /\ verificationState.faceDetected /\ verificationState.faceRecognized
            /\ verificationState.irisDetected /\ verificationState.irisAnalyzed
           THEN pageIsVoting'
         ELSE /\ ~pageIsVoting'
              /\ pageSelectedCandidate # null => location' = "/voter/verify"]_vars

----------------------------------------------------------------------------
(* The verification steps of the voter's dashboard (SpecDashboard) *)

NextDashboard ==
    \/ \E kind \in {"faceAuth", "irisDetection"} : capture(kind)
    \/ \E request \in dashRequests : dashFailure(request)
    \/ \E request \in dashRequests, verified \in BOOLEAN :
           fetchVoterInfoSuccess(request, verified)
    \/ \E request \in dashRequests :
           handleStepComplete(request, IF request.kind = "recognition"
                                         THEN ResultVerificationId ELSE "imgA")
    \/ \E request \in dashRequests : handleIrisAnalysisComplete(request)
    \/ \E request \in dashRequests : completeSuccess(request)

SpecDashboard == Init /\ [][NextDashboard]_vars

\* C17: currentStep only moves from a step to the next one, it reaches
\* COMPLETE only when /api/verify/complete has answered success, and a failed
\* completion leaves it where it is.
C17_LinearSteps ==
    [][/\ currentStep' # currentStep => currentStep' = currentStep + 1
       /\ currentStep' = VerificationStep.COMPLETE /\ currentStep # currentStep' =>
              lastOp' = [op |-> "complete", result |-> "success"] /\ isVerified'
       /\ lastOp' = [op |-> "complete", result |-> "failure"] =>
              currentStep' = currentStep]_vars

----------------------------------------------------------------------------
(* StateService alone (SpecState) *)

stateFrame ==
    /\ UNCHANGED <<verificationSession, clock, pending, votingVars, authVars, pageVars>>

\* one of the five updates is called
stateUpdate(slice, data) ==
    /\ Leaves(updateSlice(slice, World(state, localStorage), data))
    /\ lastOp' = [op |-> "update", result |-> slice, data |-> data]
    /\ stateFrame

\* clearState is called
stateClear ==
    /\ Leaves(clearState(World(state, localStorage)))
    /\ Ran("clearState", "ok")
    /\ stateFrame

\* the page is loaded again: a new StateService over the same local storage
stateReload ==
    /\ Leaves(StateService(localStorage))
    /\ Ran("StateService", "ok")
    /\ stateFrame

NextState ==
    \/ \E slice \in DOMAIN SliceInputs : \E data \in SliceInputs[slice] :
           stateUpdate(slice, data)
    \/ stateClear
    \/ stateReload

SpecState == Init /\ [][NextState]_vars

\* the slices that are stored, by their key of local storage
StoredSlices ==
    [authState |-> "auth", votingState |-> "voting",
     verificationState |-> "verification", appSettings |-> "settings"]

defaultState ==
    [auth |-> defaultAuth, voting |-> defaultVoting,
     verification |-> defaultVerification, network |-> defaultNetwork,
     settings |-> defaultSettings]

\* a stored slice is the slice in memory; a slice that is not stored is at
\* its default, which is what a new StateService reads from the missing key
StoredEqualsMemory ==
    /\ \A key \in DOMAIN StoredSlices :
           IF localStorage[key] = ABSENT
               THEN state[StoredSlices[key]] = defaultState[StoredSlices[key]]
           ELSE localStorage[key] = [json |-> state[StoredSlices[key]]]
    /\ \A key \in StorageKeys : localStorage[key] # ABSENT => key \in DOMAIN StoredSlices

\* C18: an update changes only the keys it is passed, in its own slice; the
\* stored 'authState', 'votingState', 'verificationState' and 'appSettings'
\* equal the slices in memory and the network slice is never stored;
\* clearState puts auth, voting, verification and network at their defaults
\* and leaves the settings as they are.
C18_StateService ==
    /\ []StoredEqualsMemory
    /\ [][/\ lastOp'.op = "update" =>
               LET slice == lastOp'.result
                   data == lastOp'.data
               IN  /\ \A other \in DOMAIN state \ {slice} : state'[other] = state[other]
                   /\ DOMAIN state'[slice] = DOMAIN state[slice] \cup DOMAIN data
                   /\ \A key \in DOMAIN data : state'[slice][key] = data[key]
                   /\ \A key \in DOMAIN state[slice] \ DOMAIN data :
                          state'[slice][key] = state[slice][key]
          /\ lastOp'.op = "clearState" =>
               /\ \A slice \in {"auth", "voting", "verification", "network"} :
                      state'[slice] = defaultState[slice]
               /\ state'.settings = state.settings]_vars

\* a partial update of a slice that was not at its default, with another
\* slice changed before it
C18_Witness ==
    /\ lastOp.op = "update"
    /\ lastOp.result = "auth"
    /\ lastOp.data = [role |-> "admin"]
    /\ state.auth.isAuthenticated
    /\ state.settings # defaultSettings
    /\ state.network # defaultNetwork
    /\ localStorage["votingState"] # ABSENT

\* clearState after the settings were changed
C18_WitnessClear ==
    /\ lastOp.op = "clearState"
    /\ state.settings # defaultSettings

----------------------------------------------------------------------------
(* The settings page (SpecSettings) *)

NextSettings ==
    \/ \E call \in HandleChangeCalls : handleChange(call.section, call.field, call.value)
    \/ loadSettingsSuccess
    \/ handleSaveSuccess

SpecSettings == Init /\ [][NextSettings]_vars

\* C19: handleChange(section, field, value) with field null sets
\* settings[section] to value; with a field name it sets
\* settings[section][field] to value and keeps the other fields of the
\* section; the other sections are unchanged and hasChanges is true.
C19_HandleChange ==
    [][lastOp'.op = "handleChange" =>
         LET section == lastOp'.result
             field == lastOp'.data.field
             value == lastOp'.data.value
         IN  /\ IF field = NullStr
                  THEN settings'[section] = value
                ELSE /\ "obj" \in DOMAIN settings'[section]
                     /\ DOMAIN settings'[section].obj = DOMAIN Spread(settings[section])
                                                            \cup {field}
                     /\ settings'[section].obj[field] = value
                     /\ \A other \in DOMAIN Spread(settings[section]) \ {field} :
                            settings'[section].obj[other] = settings[section].obj[other]
             /\ \A other \in DOMAIN settings \ {section} :
                    settings'[other] = settings[other]
             /\ hasChanges']_vars

----------------------------------------------------------------------------
(* validateVerificationSession against the service (SpecValidation) *)

NextValidation ==
    \E steps \in [RequiredSteps -> StepEntries] : validate(steps)

SpecValidation == Init /\ [][NextValidation]_vars

\* C20: for a steps map over the four step names, the isComplete of
\* validateVerificationSession is isVerificationComplete of a session with
\* these steps, its progress is getVerificationProgress, completedSteps and
\* remainingSteps are disjoint and together the four required steps, and
\* isComplete holds iff remainingSteps is empty iff progress is 100.
C20_ValidateAgrees ==
    validation # null =>
        LET session == [steps |-> validation.session]
            result == validation.result
        IN  /\ result.isComplete = isVerificationComplete(session)
            /\ result.progress = getVerificationProgress(session)
            /\ Elements(result.completedSteps) \cap Elements(result.remainingSteps) = {}
            /\ Elements(result.completedSteps) \cup Elements(result.remainingSteps)
                   = RequiredSteps
            /\ result.isComplete <=> result.remainingSteps = <<>>
            /\ result.isComplete <=> result.progress = 100

\* a steps map with two of the four steps completed has been validated
C20_Witness ==
    /\ validation # null
    /\ validation.result.progress = 50
    /\ validation.session.faceDetection.completed
    /\ ~validation.session.irisAnalysis.completed

----------------------------------------------------------------------------
(* AuthProvider with its requests in flight (SpecProvider) *)

NextProvider ==
    \/ AuthProviderMount
    \/ \E threw \in BOOLEAN, data \in VerifyResponses : checkAuthStatusAnswered(threw, data)
    \/ \E op \in {"login", "logout", "updateProfile"} : providerCalled(op)
    \/ \E threw \in BOOLEAN, data \in LoginResponses : loginAnswered(threw, data)
    \/ \E threw \in BOOLEAN : logoutAnswered(threw)
    \/ \E threw \in BOOLEAN, data \in VerifyResponses : updateProfileAnswered(threw, data)

SpecProvider == Init /\ [][NextProvider]_vars

tokenStored == localStorage["token"] # ABSENT

\* C21: in AuthProvider isAuthenticated implies a user and a stored token;
\* checkAuthStatus without a stored token sends no request and leaves the
\* user unauthenticated; a token that /api/auth/verify rejects is removed;
\* a failed login changes neither user, isAuthenticated nor the stored token
\* and returns false; the children are rendered only when loading is false.
C21_AuthProvider ==
    /\ [](authIsAuthenticated => authUser # null /\ tokenStored)
    /\ [](AuthProviderRender = "children" <=> ~authLoading)
    /\ [][/\ lastOp' = [op |-> "checkAuthStatus", result |-> "no token"] =>
               ~tokenStored /\ ~authIsAuthenticated' /\ "verify" \notin authRequests'
          /\ lastOp' = [op |-> "checkAuthStatus", result |-> "invalid token"] =>
               ~tokenStored' /\ ~authIsAuthenticated'
          /\ lastOp' = [op |-> "login", result |-> "false"] =>
               /\ authUser' = authUser
               /\ authIsAuthenticated' = authIsAuthenticated
               /\ localStorage' = localStorage
          /\ lastOp'.op \in {"login", "logout", "updateProfile"}
                /\ lastOp'.result = "called" /\ lastOp' # lastOp => ~authLoading]_vars

\* a login has failed while a user was authenticated with a stored token
C21_Witness ==
    /\ lastOp = [op |-> "login", result |-> "false"]
    /\ authIsAuthenticated
    /\ tokenStored

----------------------------------------------------------------------------
(* A session replaced or cleared while a request is awaited (SpecLate) *)

\* initializeSession, called while a step awaits its response: the method
\* is synchronous and tests nothing
initializeSessionDuringRequest ==
    /\ ~Idle
    /\ LET session == [id |-> CHOOSE id \in FreshIds : TRUE,
                       startTime |-> now,
                       steps |-> [step \in RequiredSteps |-> [completed |-> FALSE, score |-> 0]],
                       images |-> [face |-> NullStr, iris |-> NullStr],
                       verificationHash |-> NullStr]
       IN /\ verificationSession' = session
          /\ localStorage' = storageSet(localStorage, "verificationSession", session)
    /\ Returned("initializeSession", "ok")
    /\ UNCHANGED <<clock, pending, state, votingVars, authVars, pageVars>>

\* clearSession, called while a step awaits its response
clearSessionDuringRequest ==
    /\ ~Idle
    /\ clearSessionEffect
    /\ Returned("clearSession", "ok")
    /\ UNCHANGED <<clock, pending, state, votingVars, authVars, pageVars>>

NextLate ==
    \/ initializeSession
    \/ clearSession
    \/ initializeSessionDuringRequest
    \/ clearSessionDuringRequest
    \/ \E imageData \in ImageInputs : verifyFaceAuth(imageData)
    \/ \E response \in DetectionResponses(FaceDetections) : verifyFaceAuthResponse(response)
    \/ \E imageData \in Images : performFaceRecognition(imageData)
    \/ \E response \in ConfidenceResponses : performFaceRecognitionResponse(response)
    \/ \E imageData \in ImageInputs : detectIris(imageData)
    \/ \E response \in DetectionResponses(IrisDetections) : detectIrisResponse(response)
    \/ \E imageData \in Images : analyzeIris(imageData)
    \/ \E response \in ConfidenceResponses : analyzeIrisResponse(response)

SpecLate == Init /\ [][NextLate]_vars

\* the response arrives of a request during which the session was cleared
\* or replaced
LateResponse ==
    /\ pending # null
    /\ pending' = null
    /\ lastOp.op \in {"clearSession", "initializeSession"}

\* C22: when clearSession or initializeSession ran while a step awaited its
\* response, the response marks no step of the session now in memory or in
\* storage, the step order still holds, and the step ends with a
\* verification error at worst, never with a TypeError.
C22_LateResponse ==
    /\ []StepOrder(verificationSession)
    /\ [][LateResponse =>
              /\ verificationSession' = verificationSession
              /\ localStorage' = localStorage
              /\ lastOp'.result # "TypeError"]_vars

----------------------------------------------------------------------------
(* The session across a page load (Spec) *)

\* what the service answers, with `session` in memory and ls in storage, to
\* getVerificationStatus, isVerificationComplete, getVerificationProgress and
\* the ordering tests of performFaceRecognition, detectIris and analyzeIris
Answers(session, ls) ==
    [getVerificationStatus |-> getVerificationStatusValue(session, ls),
     isVerificationComplete |-> isVerificationComplete(session),
     getVerificationProgress |-> getVerificationProgress(session),
     performFaceRecognition |-> faceDetectionDone(session),
     detectIris |-> faceRecognitionDone(session),
     analyzeIris |-> irisDetectionDone(session)]

\* C23: a page load, which constructs the service anew over the same local
\* storage, changes none of the answers of getVerificationStatus,
\* isVerificationComplete, getVerificationProgress and of the ordering tests
\* of the three later steps, whichever of them is called first.
C23_ReloadTransparent ==
    [][lastOp'.op = "constructor" =>
         \A operation \in DOMAIN Answers(verificationSession, localStorage) :
             Answers(verificationSession', localStorage')[operation]
                 = Answers(verificationSession, localStorage)[operation]]_vars

\* C23, the part that holds: getVerificationStatus, which goes through
\* getSession, answers after a page load as it did before.
C23_StatusSurvives ==
    [][lastOp'.op = "constructor" =>
         getVerificationStatusValue(verificationSession', localStorage')
             = getVerificationStatusValue(verificationSession, localStorage)]_vars

====
